---- MODULE Spec2Model ----
(***************************************************************************)
(* Model of the code-skeleton extractor of OpenViking:                     *)
(*   - the dispatcher  (openviking/parse/parsers/code/ast/extractor.py)    *)
(*   - the C# extractor (.../ast/languages/csharp.py)                      *)
(*   - the text renderer CodeSkeleton.to_text (skeleton.py; its source is  *)
(*     not part of the tree, it is modelled from the specification, 4.3)   *)
(*                                                                         *)
(* Texts (file names, identifiers, docstrings, rendered lines) are         *)
(* sequences of strings ("chunks"); a file name is a sequence of           *)
(* one-character strings, the chunk "\n" is a line break.                  *)
(***************************************************************************)
EXTENDS Integers, Sequences, FiniteSets, TLC

VARIABLES
    _extractor,   \* module-level singleton of extractor.py: None (0) or an instance id
    _cache,       \* _cache[self]: the dict self._cache of dispatcher instance self
    log,          \* the warnings given to logger.warning, in order
    call,         \* the last call made and what it returned
    attempts,     \* attempts[self][lang]: how often cls(**kwargs) was attempted
    used,         \* the triples <<self, lang, extractor object>> on which extract() ran
    returned,     \* the instances get_extractor() has returned
    nobj,         \* the number of extractor objects constructed so far
    ncalls,       \* the number of calls made so far
    det,          \* language detection on its own: file name and detected key
    cs,           \* the C# extractor on its own: syntax tree and skeleton
    app,          \* one function of csharp.py or skeleton.py on its own: argument and result
    writer,       \* an AsyncRecordWriter, its callers and its writer thread
    recorder,     \* the class IORecorder and the threads calling get_instance / initialize
    fs,           \* a RecordingVikingFS, the VikingFS it wraps and the operations in progress
    threads       \* the threads calling extract_skeleton on one dispatcher concurrently

vars ==
    <<_extractor, _cache, log, call, attempts, used, returned, nobj, ncalls, det, cs, app,
      writer, recorder, fs, threads>>

\* the variables of the components outside the code-skeleton extractor
otherVars == <<writer, recorder, fs, threads>>

dispatcherVars == <<_extractor, _cache, log, call, attempts, used, returned, nobj, ncalls>>

(***************************************************************************)
(* Bounds of the model.                                                    *)
(***************************************************************************)
MaxCalls == 2
MaxInstances == 2
MaxRoot == 3

None == "None"
NoObject == 0

(***************************************************************************)
(* Generic helpers on sequences.                                           *)
(***************************************************************************)
RECURSIVE Flatten(_)
Flatten(ss) == IF ss = <<>> THEN <<>> ELSE Head(ss) \o Flatten(Tail(ss))

SeqsUpTo(S, n) == UNION {[1..k -> S] : k \in 0..n}

Count(s, x) == Cardinality({i \in 1..Len(s) : s[i] = x})

NoDuplicates(s) == \A i, j \in 1..Len(s) : s[i] = s[j] => i = j

Put(f, k, v) == [x \in (DOMAIN f) \cup {k} |-> IF x = k THEN v ELSE f[x]]

EmptyDict == [x \in {} |-> 0]

(***************************************************************************)
(* extractor.py: the two tables.                                           *)
(***************************************************************************)
_EXT_MAP ==
    << <<<<".", "p", "y">>, "python">>,
       <<<<".", "j", "s">>, "javascript">>,
       <<<<".", "j", "s", "x">>, "javascript">>,
       <<<<".", "t", "s">>, "typescript">>,
       <<<<".", "t", "s", "x">>, "typescript">>,
       <<<<".", "j", "a", "v", "a">>, "java">>,
       <<<<".", "c">>, "cpp">>,
       <<<<".", "c", "p", "p">>, "cpp">>,
       <<<<".", "c", "c">>, "cpp">>,
       <<<<".", "h">>, "cpp">>,
       <<<<".", "h", "p", "p">>, "cpp">>,
       <<<<".", "r", "s">>, "rust">>,
       <<<<".", "g", "o">>, "go">>,
       <<<<".", "c", "s">>, "csharp">> >>

_EXTRACTOR_REGISTRY ==
    {"python", "javascript", "typescript", "java", "cpp", "rust", "go", "csharp"}

\* dict.get(key): the value of the key, or None
DictGet(table, key) ==
    IF \E i \in 1..Len(table) : table[i][1] = key
    THEN table[CHOOSE i \in 1..Len(table) : table[i][1] = key][2]
    ELSE None

(***************************************************************************)
(* pathlib: Path(file_name).suffix, and str.lower().                       *)
(***************************************************************************)
UpperCase == <<"A", "C", "G", "H", "J", "O", "P", "R", "S", "T", "V", "X", "Y", "L", "U">>
LowerCase == <<"a", "c", "g", "h", "j", "o", "p", "r", "s", "t", "v", "x", "y", "l", "u">>

LowerChar(c) ==
    IF \E i \in 1..Len(UpperCase) : UpperCase[i] = c
    THEN LowerCase[CHOOSE i \in 1..Len(UpperCase) : UpperCase[i] = c]
    ELSE c

lower(s) == [i \in 1..Len(s) |-> LowerChar(s[i])]

\* the index of the last occurrence of c in s, 0 when there is none
RFind(s, c) ==
    IF \E i \in 1..Len(s) : s[i] = c
    THEN CHOOSE i \in 1..Len(s) : s[i] = c /\ \A j \in (i+1)..Len(s) : s[j] # c
    ELSE 0

\* the path split at "/"
RECURSIVE SplitAt(_, _, _)
SplitAt(s, sep, cur) ==
    IF s = <<>> THEN <<cur>>
    ELSE IF Head(s) = sep THEN <<cur>> \o SplitAt(Tail(s), sep, <<>>)
    ELSE SplitAt(Tail(s), sep, Append(cur, Head(s)))

\* Path.name: the last component; empty and "." components are dropped by the parser
PathName(p) ==
    LET parts == SelectSeq(SplitAt(p, "/", <<>>), LAMBDA x : x # <<>> /\ x # <<".">>)
    IN  IF parts = <<>> THEN <<>> ELSE parts[Len(parts)]

\* Path.suffix: name[i:] for i = name.rfind('.') when 0 < i < len(name) - 1 (0-based)
PathSuffix(p) ==
    LET name == PathName(p)
        i == RFind(name, ".")
    IN  IF 1 < i /\ i < Len(name) THEN SubSeq(name, i, Len(name)) ELSE <<>>

\* the suffix looked up as written, without lower()
_detect_language_case_sensitive(file_name) == DictGet(_EXT_MAP, PathSuffix(file_name))

_detect_language(file_name) == DictGet(_EXT_MAP, lower(PathSuffix(file_name)))

(***************************************************************************)
(* skeleton.py (not in the tree): the data model and CodeSkeleton.to_text, *)
(* after sections 3 and 4.3 of the specification.                          *)
(***************************************************************************)
FunctionSig(name, params, return_type, docstring) ==
    [name |-> name, params |-> params, return_type |-> return_type, docstring |-> docstring]

ClassSkeleton(name, bases, docstring, methods) ==
    [name |-> name, bases |-> bases, docstring |-> docstring, methods |-> methods]

CodeSkeleton(file_name, language, module_doc, imports, classes, functions) ==
    [file_name |-> file_name, language |-> language, module_doc |-> module_doc,
     imports |-> imports, classes |-> classes, functions |-> functions]

Quotes == "\"\"\""

\* the lines of a text: split at the line breaks
Lines(text) == SplitAt(text, "\n", <<>>)

RECURSIVE Join(_, _)
Join(texts, sep) ==
    IF texts = <<>> THEN <<>>
    ELSE IF Len(texts) = 1 THEN texts[1]
    ELSE texts[1] \o <<sep>> \o Join(Tail(texts), sep)

\* the parameter text as stored, line breaks included
CompactParams_raw(params) == params

\* a multi-line parameter text on one line
CompactParams(params) == [i \in 1..Len(params) |-> IF params[i] = "\n" THEN " " ELSE params[i]]

\* a line without content
BlankLine(line) == \A i \in 1..Len(line) : line[i] \in {" ", "\t", "\r"}

\* the lines from the first to the last line with content
RECURSIVE ContentLines(_)
ContentLines(ls) ==
    IF ls = <<>> THEN <<>>
    ELSE IF BlankLine(Head(ls)) THEN ContentLines(Tail(ls))
    ELSE IF BlankLine(ls[Len(ls)]) THEN ContentLines(SubSeq(ls, 1, Len(ls) - 1))
    ELSE ls

\* every line of the docstring, the closing marker on a line of its own
RenderDoc_block(indent, docstring, verbose) ==
    IF docstring = <<>> THEN <<>>
    ELSE << <<indent, Quotes>> \o Lines(docstring)[1] >>
         \o [i \in 1..(Len(Lines(docstring)) - 1) |-> <<indent>> \o Lines(docstring)[i + 1]]
         \o << <<indent, Quotes>> >>

\* the first line only, whatever verbose
RenderDoc_first_line(indent, docstring, verbose) ==
    IF docstring = <<>> THEN <<>>
    ELSE << <<indent, Quotes>> \o Lines(docstring)[1] \o <<Quotes>> >>

\* every line, whatever verbose
RenderDoc_always_full(indent, docstring, verbose) ==
    LET ls == ContentLines(Lines(docstring))
    IN  IF docstring = <<>> THEN <<>>
        ELSE IF Len(ls) <= 1 THEN << <<indent, Quotes>> \o Flatten(ls) \o <<Quotes>> >>
        ELSE [i \in 1..Len(ls) |->
                 IF i = 1 THEN <<indent, Quotes>> \o ls[1]
                 ELSE IF i = Len(ls) THEN <<indent>> \o ls[i] \o <<Quotes>>
                 ELSE <<indent>> \o ls[i]]

\* a docstring under the compact / verbose rule, as indented lines: compact, the first
\* line between the markers; verbose, the content lines, the markers on the lines of the
\* first and of the last of them
RenderDoc(indent, docstring, verbose) ==
    LET ls == ContentLines(Lines(docstring))
        n == Len(ls)
    IN  IF docstring = <<>> THEN <<>>
        ELSE IF ~verbose THEN << <<indent, Quotes>> \o Lines(docstring)[1] \o <<Quotes>> >>
        ELSE IF n <= 1 THEN << <<indent, Quotes>> \o Flatten(ls) \o <<Quotes>> >>
        ELSE [i \in 1..n |->
                 IF i = 1 THEN <<indent, Quotes>> \o ls[1]
                 ELSE IF i = n THEN <<indent>> \o ls[n] \o <<Quotes>>
                 ELSE <<indent>> \o ls[i]]

RenderSig(prefix, f) ==
    <<prefix>> \o f.name \o <<"(">> \o CompactParams(f.params) \o <<")">>
        \o (IF f.return_type = <<>> THEN <<>> ELSE <<" -> ">> \o f.return_type)

RenderMethods(methods, verbose) ==
    Flatten([i \in 1..Len(methods) |->
        <<RenderSig("  + ", methods[i])>> \o RenderDoc("    ", methods[i].docstring, verbose)])

RenderClass(c, verbose) ==
    << <<"class ">> \o c.name
         \o (IF c.bases = <<>> THEN <<>> ELSE <<"(">> \o Join(c.bases, ", ") \o <<")">>) >>
    \o RenderDoc("  ", c.docstring, verbose)
    \o RenderMethods(c.methods, verbose)

RenderFunction(f, verbose) ==
    <<RenderSig("def ", f)>> \o RenderDoc("  ", f.docstring, verbose)

HeaderLine(sk) == <<"# ">> \o sk.file_name \o <<" [", sk.language, "]">>

\* the text without the header when the skeleton is empty, the header last otherwise
to_text_header_last(sk, verbose) ==
    IF sk.module_doc = <<>> /\ sk.imports = <<>> /\ sk.classes = <<>> /\ sk.functions = <<>>
    THEN <<>>
    ELSE (IF sk.module_doc = <<>> THEN <<>>
          ELSE << <<"module: \"">> \o Lines(sk.module_doc)[1] \o <<"\"">> >>)
         \o (IF sk.imports = <<>> THEN <<>>
             ELSE << <<"imports: ">> \o Join(sk.imports, ", ") >>)
         \o Flatten([i \in 1..Len(sk.classes) |-> RenderClass(sk.classes[i], verbose)])
         \o Flatten([i \in 1..Len(sk.functions) |-> RenderFunction(sk.functions[i], verbose)])
         \o <<HeaderLine(sk)>>

\* CodeSkeleton.to_text(verbose): the rendered text as its sequence of lines
to_text(sk, verbose) ==
    <<HeaderLine(sk)>>
    \o (IF sk.module_doc = <<>> THEN <<>>
        ELSE << <<"module: \"">> \o Lines(sk.module_doc)[1] \o <<"\"">> >>)
    \o (IF sk.imports = <<>> THEN <<>>
        ELSE << <<"imports: ">> \o Join(sk.imports, ", ") >>)
    \o Flatten([i \in 1..Len(sk.classes) |-> RenderClass(sk.classes[i], verbose)])
    \o Flatten([i \in 1..Len(sk.functions) |-> RenderFunction(sk.functions[i], verbose)])

(***************************************************************************)
(* csharp.py: the C# extractor.  A syntax tree of tree-sitter is a node    *)
(* [type, text, field, children]: text is the source text the node spans,  *)
(* field the field name the node has in its parent ("" for none).          *)
(* Comment texts are sequences of characters, where a chunk of several     *)
(* letters stands for a word of ASCII letters.                             *)
(***************************************************************************)
Whitespace == {" ", "\n", "\t", "\r"}
Punctuation == {"/", "*", "<", ">", "=", "\"", ".", ",", "(", ")", "{", "}", ";", "#", ":"}
Digits == {"0", "1", "2", "3", "4", "5", "6", "7", "8", "9"}

IsSpace(c) == c \in Whitespace
IsLetter(c) == c \notin Whitespace \cup Punctuation \cup Digits
IsAlnum(c) == c \notin Whitespace \cup Punctuation

RECURSIVE LStrip(_)
LStrip(s) == IF s # <<>> /\ IsSpace(Head(s)) THEN LStrip(Tail(s)) ELSE s

RECURSIVE RStrip(_)
RStrip(s) == IF s # <<>> /\ IsSpace(s[Len(s)]) THEN RStrip(SubSeq(s, 1, Len(s) - 1)) ELSE s

\* str.strip()
Strip(s) == RStrip(LStrip(s))

\* str.lstrip("*")
RECURSIVE LStripStars(_)
LStripStars(s) == IF s # <<>> /\ Head(s) = "*" THEN LStripStars(Tail(s)) ELSE s

StartsWith(s, prefix) == Len(s) >= Len(prefix) /\ SubSeq(s, 1, Len(prefix)) = prefix
EndsWith(s, suffix) == Len(s) >= Len(suffix) /\ SubSeq(s, Len(s) - Len(suffix) + 1, Len(s)) = suffix

TripleSlash == <<"/", "/", "/">>
BlockOpen == <<"/", "*", "*">>
BlockClose == <<"*", "/">>

NonEmpty(texts) == SelectSeq(texts, LAMBDA t : t # <<>>)

\* the index after the run of [a-zA-Z0-9] that starts at j
RECURSIVE AfterAlnum(_, _)
AfterAlnum(s, j) == IF j <= Len(s) /\ IsAlnum(s[j]) THEN AfterAlnum(s, j + 1) ELSE j

\* the index of the first ">" at or after j, 0 when there is none
FirstClose(s, j) ==
    IF \E m \in j..Len(s) : s[m] = ">"
    THEN CHOOSE m \in j..Len(s) : s[m] = ">" /\ \A n \in j..(m - 1) : s[n] # ">"
    ELSE 0

\* where a match of </?[a-zA-Z][a-zA-Z0-9]*(?:\s+[^>]*)?/?> that starts at i ends;
\* 0 when there is no match at i
TagEnd(s, i) ==
    IF s[i] # "<" THEN 0
    ELSE LET j == IF i + 1 <= Len(s) /\ s[i + 1] = "/" THEN i + 2 ELSE i + 1
         IN  IF ~(j <= Len(s) /\ IsLetter(s[j])) THEN 0
             ELSE LET k == AfterAlnum(s, j + 1)
                  IN  IF k > Len(s) THEN 0
                      ELSE IF IsSpace(s[k]) THEN FirstClose(s, k + 1)
                      ELSE IF s[k] = ">" THEN k
                      ELSE IF s[k] = "/" /\ k + 1 <= Len(s) /\ s[k + 1] = ">" THEN k + 1
                      ELSE 0

\* re.sub(<the tag pattern>, "", s), scanning from index i
RECURSIVE RemoveTags(_, _)
RemoveTags(s, i) ==
    IF i > Len(s) THEN <<>>
    ELSE IF TagEnd(s, i) > 0 THEN RemoveTags(s, TagEnd(s, i) + 1)
    ELSE <<s[i]>> \o RemoveTags(s, i + 1)

\* re.sub(r"\s+", " ", s)
RECURSIVE CollapseWhitespace(_)
CollapseWhitespace(s) ==
    IF s = <<>> THEN <<>>
    ELSE IF IsSpace(Head(s)) THEN <<" ">> \o CollapseWhitespace(LStrip(s))
    ELSE <<Head(s)>> \o CollapseWhitespace(Tail(s))

\* one line of a /// comment: stripped, the marker removed, stripped again
SlashLine(line) ==
    LET stripped == Strip(line)
    IN  IF StartsWith(stripped, TripleSlash) THEN Strip(SubSeq(stripped, 4, Len(stripped)))
        ELSE stripped

\* one line of a /** */ comment
BlockLine(line) == Strip(LStripStars(Strip(line)))

SlashLines(ls) == [i \in 1..Len(ls) |-> SlashLine(ls[i])]
BlockLines(ls) == [i \in 1..Len(ls) |-> BlockLine(ls[i])]

_parse_doc_comment(raw) ==
    LET r == Strip(raw)
        unmarked ==
            IF StartsWith(r, TripleSlash)
            THEN Join(NonEmpty(SlashLines(Lines(r))), " ")
            ELSE IF StartsWith(r, BlockOpen)
            THEN LET a == SubSeq(r, 4, Len(r))
                     b == IF EndsWith(a, BlockClose) THEN SubSeq(a, 1, Len(a) - 2) ELSE a
                 IN  Strip(Join(NonEmpty(BlockLines(Lines(b))), "\n"))
            ELSE r
    IN  Strip(CollapseWhitespace(RemoveTags(unmarked, 1)))

_node_text(node) == node.text

IsDocComment(text) == StartsWith(Strip(text), TripleSlash) \/ StartsWith(Strip(text), BlockOpen)

\* the directives not transparent: the scan stops at them
RECURSIVE PrecedingComments_opaque(_, _)
PrecedingComments_opaque(siblings, i) ==
    IF i < 1 THEN <<>>
    ELSE LET prev == siblings[i]
         IN  IF prev.type = "comment" /\ IsDocComment(_node_text(prev))
             THEN Append(PrecedingComments_opaque(siblings, i - 1),
                         _parse_doc_comment(_node_text(prev)))
             ELSE <<>>

\* the loop of _preceding_doc from index i downwards: the parsed comments collected
RECURSIVE PrecedingComments(_, _)
PrecedingComments(siblings, i) ==
    IF i < 1 THEN <<>>
    ELSE LET prev == siblings[i]
         IN  IF prev.type = "comment"
             THEN IF IsDocComment(_node_text(prev))
                  THEN Append(PrecedingComments(siblings, i - 1),
                              _parse_doc_comment(_node_text(prev)))
                  ELSE <<>>
             ELSE IF prev.type \in {"preprocessor_directive", "nullable_directive"}
             THEN PrecedingComments(siblings, i - 1)
             ELSE <<>>

\* _preceding_doc(siblings, idx, content_bytes), idx counted from 1
_preceding_doc(siblings, idx) ==
    IF idx = 1 THEN <<>> ELSE Join(PrecedingComments(siblings, idx - 1), "\n")

StripParens(raw) ==
    IF StartsWith(raw, <<"(">>) /\ EndsWith(raw, <<")">>) THEN SubSeq(raw, 2, Len(raw) - 1)
    ELSE raw

\* the first loop of _extract_method over node.children, from child i on
RECURSIVE MethodChildren(_, _, _)
MethodChildren(children, i, sig) ==
    IF i > Len(children) THEN sig
    ELSE LET child == children[i]
             next ==
                 IF child.type = "identifier" /\ sig.name = <<>>
                 THEN [sig EXCEPT !.name = _node_text(child)]
                 ELSE IF child.type = "void_keyword"
                 THEN [sig EXCEPT !.return_type = <<"void">>]
                 ELSE IF child.type \in {"predefined_type", "type_identifier", "generic_name"}
                 THEN IF sig.return_type = <<>>
                      THEN [sig EXCEPT !.return_type = _node_text(child)]
                      ELSE sig
                 ELSE IF child.type = "parameter_list"
                 THEN [sig EXCEPT !.params = Strip(StripParens(Strip(_node_text(child))))]
                 ELSE sig
         IN  MethodChildren(children, i + 1, next)

AccessorKeywords == {"get", "set", "init"}

\* the name of one accessor_declaration: its name field, or else its first keyword child
AccessorName(acc) ==
    LET named == SelectSeq(acc.children, LAMBDA n : n.field = "name")
        keys == SelectSeq(acc.children, LAMBDA n : n.type \in AccessorKeywords)
    IN  IF named # <<>> THEN Strip(_node_text(named[1]))
        ELSE IF keys # <<>> THEN <<keys[1].type>>
        ELSE <<>>

\* the accessors of one accessor_list
Accessors(list) ==
    LET decls == SelectSeq(list.children, LAMBDA n : n.type = "accessor_declaration")
        names == [i \in 1..Len(decls) |-> AccessorName(decls[i])]
    IN  SelectSeq(names, LAMBDA a : \E k \in AccessorKeywords : a = <<k>>)

\* the second loop of _extract_method: every accessor_list with accessors sets params
RECURSIVE PropertyParams(_, _, _)
PropertyParams(children, i, params) ==
    IF i > Len(children) THEN params
    ELSE LET child == children[i]
             accessors == IF child.type = "accessor_list" THEN Accessors(child) ELSE <<>>
         IN  PropertyParams(children, i + 1,
                 IF accessors # <<>>
                 THEN <<"{", " ">> \o Join([k \in 1..Len(accessors) |-> accessors[k]], " ")
                          \o <<" ", "}">>
                 ELSE params)

_extract_method(node, docstring) ==
    LET sig == MethodChildren(node.children, 1, FunctionSig(<<>>, <<>>, <<>>, docstring))
    IN  IF node.type = "property_declaration"
        THEN [sig EXCEPT !.params = PropertyParams(node.children, 1, sig.params)]
        ELSE sig

MemberTypes == {"method_declaration", "constructor_declaration", "property_declaration"}

\* the members in two passes: methods and constructors first, properties after them
Methods_grouped(siblings) ==
    LET first == SelectSeq([i \in 1..Len(siblings) |-> i],
                           LAMBDA i : siblings[i].type \in MemberTypes \ {"property_declaration"})
        second == SelectSeq([i \in 1..Len(siblings) |-> i],
                            LAMBDA i : siblings[i].type = "property_declaration")
    IN  [k \in 1..Len(first \o second) |->
            _extract_method(siblings[(first \o second)[k]],
                            _preceding_doc(siblings, (first \o second)[k]))]

\* the members of a class body as FunctionSigs, in the order of the body
Methods(siblings) ==
    LET idxs == {i \in 1..Len(siblings) : siblings[i].type \in MemberTypes}
        Nth(k) == CHOOSE i \in idxs : Cardinality({j \in idxs : j < i}) = k - 1
    IN  [k \in 1..Cardinality(idxs) |->
            _extract_method(siblings[Nth(k)], _preceding_doc(siblings, Nth(k)))]

_extract_class(node, docstring) ==
    LET ids == SelectSeq(node.children, LAMBDA n : n.type = "identifier" /\ _node_text(n) # <<>>)
        lists == SelectSeq(node.children, LAMBDA n : n.type = "base_list")
        bodies == SelectSeq(node.children, LAMBDA n : n.type = "declaration_list")
        baseNodes == Flatten([i \in 1..Len(lists) |->
                        SelectSeq(lists[i].children,
                                  LAMBDA n : n.type \in {"type_identifier", "identifier"})])
    IN  ClassSkeleton(IF ids = <<>> THEN <<>> ELSE _node_text(ids[1]),
                      [i \in 1..Len(baseNodes) |-> _node_text(baseNodes[i])],
                      docstring,
                      IF bodies = <<>> \/ bodies[Len(bodies)].children = <<>> THEN <<>>
                      ELSE Methods(bodies[Len(bodies)].children))

TypeDeclarations ==
    {"class_declaration", "interface_declaration", "struct_declaration", "record_declaration"}

NamespaceDeclarations == {"namespace_declaration", "file_scoped_namespace_declaration"}

\* the classes of one sibling list, each with its preceding doc comment
ClassesOf(siblings) ==
    LET idxs == {i \in 1..Len(siblings) : siblings[i].type \in TypeDeclarations}
        Nth(k) == CHOOSE i \in idxs : Cardinality({j \in idxs : j < i}) = k - 1
    IN  [k \in 1..Cardinality(idxs) |->
            _extract_class(siblings[Nth(k)], _preceding_doc(siblings, Nth(k)))]

\* the targets one using_directive contributes
UsingTargets(node) ==
    LET subs == SelectSeq(node.children, LAMBDA n : n.type \in {"identifier", "qualified_name"})
    IN  [i \in 1..Len(subs) |-> _node_text(subs[i])]

\* the classes one namespace node contributes: those of each of its declaration lists
NamespaceClasses(node) ==
    LET lists == SelectSeq(node.children, LAMBDA n : n.type = "declaration_list")
    IN  Flatten([i \in 1..Len(lists) |-> ClassesOf(lists[i].children)])

\* the loop of extract over the children of the root, from child idx on
RECURSIVE RootChildren(_, _, _)
RootChildren(siblings, idx, acc) ==
    IF idx > Len(siblings) THEN acc
    ELSE LET child == siblings[idx]
             next ==
                 IF child.type = "using_directive"
                 THEN [acc EXCEPT !.imports = @ \o UsingTargets(child)]
                 ELSE IF child.type \in NamespaceDeclarations
                 THEN [acc EXCEPT !.classes = @ \o NamespaceClasses(child)]
                 ELSE IF child.type \in TypeDeclarations
                 THEN [acc EXCEPT !.classes =
                          Append(@, _extract_class(child, _preceding_doc(siblings, idx)))]
                 ELSE acc
         IN  RootChildren(siblings, idx + 1, next)

\* CSharpExtractor.extract, given the tree the parser made of the content
CSharpExtractor_extract(file_name, root) ==
    LET lists == RootChildren(root.children, 1, [imports |-> <<>>, classes |-> <<>>])
    IN  CodeSkeleton(file_name, "C#", <<>>, lists.imports, lists.classes, <<>>)

(***************************************************************************)
(* The per-language extractors behind the dispatcher.  Only csharp.py is   *)
(* in the tree; to the dispatcher an extractor is an object whose          *)
(* extract(file_name, content) either raises or returns a CodeSkeleton of  *)
(* the file.  The content decides which; it is drawn by the caller.        *)
(***************************************************************************)
DisplayName(lang) ==
    CASE lang = "python" -> "Python"
      [] lang = "javascript" -> "JavaScript"
      [] lang = "typescript" -> "TypeScript"
      [] lang = "java" -> "Java"
      [] lang = "cpp" -> "C/C++"
      [] lang = "rust" -> "Rust"
      [] lang = "go" -> "Go"
      [] lang = "csharp" -> "C#"
      [] OTHER -> "?"

\* the docstring of test_verbose_propagated: "Summary line.\n\nDetail here."
SummaryLine == "Summary line."
DetailLine == "Detail here."
MultiLineDoc == <<SummaryLine, "\n", "\n", DetailLine>>

\* the skeleton an extractor returns for a content: "" (the empty content) or a
\* file with one documented function
LanguageExtractor_extract(lang, file_name, content) ==
    IF content = "doc"
    THEN CodeSkeleton(file_name, DisplayName(lang), <<>>, <<>>, <<>>,
                      <<FunctionSig(<<"foo">>, <<>>, <<>>, MultiLineDoc)>>)
    ELSE CodeSkeleton(file_name, DisplayName(lang), <<>>, <<>>, <<>>, <<>>)

Contents == {"", "doc"}

\* what the environment decides in one call: whether importing and constructing the
\* extractor class succeeds, whether extract() raises, whether to_text() raises
\* (an import that fails is only observed by a call that attempts construction, and a
\* call whose extract() raises never reaches to_text(): four cases cover all)
Envs ==
    { [importOk |-> FALSE, extractRaises |-> FALSE, textRaises |-> FALSE],
      [importOk |-> TRUE, extractRaises |-> TRUE, textRaises |-> FALSE],
      [importOk |-> TRUE, extractRaises |-> FALSE, textRaises |-> TRUE],
      [importOk |-> TRUE, extractRaises |-> FALSE, textRaises |-> FALSE] }

(***************************************************************************)
(* extractor.py: ASTExtractor.                                             *)
(***************************************************************************)
NoneResult == [kind |-> "None", text |-> <<>>]
StrResult(lines) == [kind |-> "str", text |-> lines]

UnavailableWarning(self, lang) ==
    [msg |-> "AST extractor unavailable", self |-> self, file_name |-> <<>>, lang |-> lang]

FailedWarning(self, file_name, lang) ==
    [msg |-> "AST extraction failed", self |-> self, file_name |-> file_name, lang |-> lang]

\* the registry check dropped: the lookup of an unknown key fails like an import
_get_extractor_unguarded(self, lang, importOk) ==
    IF lang \in DOMAIN _cache[self]
    THEN [ret |-> _cache[self][lang], cache |-> _cache[self], warnings |-> <<>>, tried |-> FALSE]
    ELSE IF importOk /\ lang \in _EXTRACTOR_REGISTRY
    THEN [ret |-> nobj + 1, cache |-> Put(_cache[self], lang, nobj + 1),
          warnings |-> <<>>, tried |-> TRUE]
    ELSE [ret |-> NoObject, cache |-> Put(_cache[self], lang, NoObject),
          warnings |-> <<UnavailableWarning(self, lang)>>, tried |-> TRUE]

\* the failure not memoised: no sentinel is stored
_get_extractor_no_sentinel(self, lang, importOk) ==
    IF lang = None \/ lang \notin _EXTRACTOR_REGISTRY
    THEN [ret |-> NoObject, cache |-> _cache[self], warnings |-> <<>>, tried |-> FALSE]
    ELSE IF lang \in DOMAIN _cache[self]
    THEN [ret |-> _cache[self][lang], cache |-> _cache[self], warnings |-> <<>>, tried |-> FALSE]
    ELSE IF importOk
    THEN [ret |-> nobj + 1, cache |-> Put(_cache[self], lang, nobj + 1),
          warnings |-> <<>>, tried |-> TRUE]
    ELSE [ret |-> NoObject, cache |-> _cache[self],
          warnings |-> <<UnavailableWarning(self, lang)>>, tried |-> TRUE]

\* the constructed extractor not stored in the cache
_get_extractor_no_store(self, lang, importOk) ==
    IF lang = None \/ lang \notin _EXTRACTOR_REGISTRY
    THEN [ret |-> NoObject, cache |-> _cache[self], warnings |-> <<>>, tried |-> FALSE]
    ELSE IF lang \in DOMAIN _cache[self]
    THEN [ret |-> _cache[self][lang], cache |-> _cache[self], warnings |-> <<>>, tried |-> FALSE]
    ELSE IF importOk
    THEN [ret |-> nobj + 1, cache |-> _cache[self], warnings |-> <<>>, tried |-> TRUE]
    ELSE [ret |-> NoObject, cache |-> Put(_cache[self], lang, NoObject),
          warnings |-> <<UnavailableWarning(self, lang)>>, tried |-> TRUE]

\* ASTExtractor._get_extractor: the value returned, the cache afterwards, the warnings
\* logged, and whether construction was attempted
_get_extractor(self, lang, importOk) ==
    IF lang = None \/ lang \notin _EXTRACTOR_REGISTRY
    THEN [ret |-> NoObject, cache |-> _cache[self], warnings |-> <<>>, tried |-> FALSE]
    ELSE IF lang \in DOMAIN _cache[self]
    THEN [ret |-> _cache[self][lang], cache |-> _cache[self], warnings |-> <<>>, tried |-> FALSE]
    ELSE IF importOk
    THEN [ret |-> nobj + 1, cache |-> Put(_cache[self], lang, nobj + 1),
          warnings |-> <<>>, tried |-> TRUE]
    ELSE [ret |-> NoObject, cache |-> Put(_cache[self], lang, NoObject),
          warnings |-> <<UnavailableWarning(self, lang)>>, tried |-> TRUE]

\* what one extract_skeleton call does, given what _get_extractor did (g)
Outcome(g, lang, skeleton, threw, raised, warnings, result) ==
    [lang |-> lang, extractor |-> g.ret, cache |-> g.cache, tried |-> g.tried,
     warnings |-> g.warnings \o warnings, skeleton |-> skeleton, threw |-> threw,
     raised |-> raised, result |-> result]

\* without the try/except: the exception reaches the caller
extract_skeleton_no_try(self, file_name, content, verbose, env) ==
    LET lang == _detect_language(file_name)
        g == _get_extractor(self, lang, env.importOk)
        skeleton == LanguageExtractor_extract(lang, file_name, content)
    IN  IF g.ret = NoObject
        THEN Outcome(g, lang, <<>>, "", FALSE, <<>>, NoneResult)
        ELSE IF env.extractRaises
        THEN Outcome(g, lang, <<>>, "extract", TRUE, <<>>, NoneResult)
        ELSE IF env.textRaises
        THEN Outcome(g, lang, <<skeleton>>, "to_text", TRUE, <<>>, NoneResult)
        ELSE Outcome(g, lang, <<skeleton>>, "", FALSE, <<>>,
                     StrResult(to_text(skeleton, verbose)))

\* the verbose flag not passed on: to_text() with its default
extract_skeleton_default_verbose(self, file_name, content, verbose, env) ==
    LET lang == _detect_language(file_name)
        g == _get_extractor(self, lang, env.importOk)
        skeleton == LanguageExtractor_extract(lang, file_name, content)
    IN  IF g.ret = NoObject
        THEN Outcome(g, lang, <<>>, "", FALSE, <<>>, NoneResult)
        ELSE IF env.extractRaises
        THEN Outcome(g, lang, <<>>, "extract", FALSE,
                     <<FailedWarning(self, file_name, lang)>>, NoneResult)
        ELSE IF env.textRaises
        THEN Outcome(g, lang, <<skeleton>>, "to_text", FALSE,
                     <<FailedWarning(self, file_name, lang)>>, NoneResult)
        ELSE Outcome(g, lang, <<skeleton>>, "", FALSE, <<>>,
                     StrResult(to_text(skeleton, FALSE)))

\* a failed extraction marking the language unavailable in the cache
extract_skeleton_forgetful(self, file_name, content, verbose, env) ==
    LET lang == _detect_language(file_name)
        g == _get_extractor(self, lang, env.importOk)
        bad == [g EXCEPT !.cache = Put(g.cache, lang, NoObject)]
        skeleton == LanguageExtractor_extract(lang, file_name, content)
    IN  IF g.ret = NoObject
        THEN Outcome(g, lang, <<>>, "", FALSE, <<>>, NoneResult)
        ELSE IF env.extractRaises
        THEN Outcome(bad, lang, <<>>, "extract", FALSE,
                     <<FailedWarning(self, file_name, lang)>>, NoneResult)
        ELSE IF env.textRaises
        THEN Outcome(bad, lang, <<skeleton>>, "to_text", FALSE,
                     <<FailedWarning(self, file_name, lang)>>, NoneResult)
        ELSE Outcome(g, lang, <<skeleton>>, "", FALSE, <<>>,
                     StrResult(to_text(skeleton, verbose)))

\* ASTExtractor.extract_skeleton
extract_skeleton(self, file_name, content, verbose, env) ==
    LET lang == _detect_language(file_name)
        g == _get_extractor(self, lang, env.importOk)
        skeleton == LanguageExtractor_extract(lang, file_name, content)
    IN  IF g.ret = NoObject
        THEN Outcome(g, lang, <<>>, "", FALSE, <<>>, NoneResult)
        ELSE IF env.extractRaises
        THEN Outcome(g, lang, <<>>, "extract", FALSE,
                     <<FailedWarning(self, file_name, lang)>>, NoneResult)
        ELSE IF env.textRaises
        THEN Outcome(g, lang, <<skeleton>>, "to_text", FALSE,
                     <<FailedWarning(self, file_name, lang)>>, NoneResult)
        ELSE Outcome(g, lang, <<skeleton>>, "", FALSE, <<>>,
                     StrResult(to_text(skeleton, verbose)))

\* the check for an existing instance dropped
get_extractor_always_new == [new |-> TRUE, ret |-> Len(_cache) + 1]

\* get_extractor(): the instance returned, and whether it was created by this call
get_extractor ==
    IF _extractor = NoObject
    THEN [new |-> TRUE, ret |-> Len(_cache) + 1]
    ELSE [new |-> FALSE, ret |-> _extractor]

(***************************************************************************)
(* The dispatcher as a state machine: its callers construct dispatchers,   *)
(* ask for the process-wide one, and extract skeletons.                    *)
(***************************************************************************)
\* the file names the callers pass: util.py, Util.CS, script.lua
DispatchFiles ==
    { <<"u", ".", "p", "y">>, <<"U", ".", "C", "S">>, <<"s", ".", "l", "u", "a">> }

NoCall ==
    [op |-> "none", self |-> 0, file_name |-> <<>>, content |-> "", verbose |-> FALSE,
     lang |-> None, extractor |-> NoObject, tried |-> FALSE, skeleton |-> <<>>,
     threw |-> "", raised |-> FALSE, result |-> NoneResult]

DetIdle == [file_name |-> <<>>, lang |-> None, done |-> FALSE]
CsIdle ==
    [tree |-> [type |-> "compilation_unit", text |-> <<>>, field |-> "", children |-> <<>>],
     skeleton |-> <<>>, done |-> FALSE]
AppIdle == [op |-> "none", done |-> FALSE]
NoThreads == [x \in {} |-> 0]
WriterIdle == [started |-> FALSE]
RecorderIdle == [started |-> FALSE]
FsIdle == [started |-> FALSE]

\* the components outside the specification at hand have not been set up
OthersIdle ==
    writer = WriterIdle /\ recorder = RecorderIdle /\ fs = FsIdle /\ threads = NoThreads

Init ==
    /\ _extractor = NoObject
    /\ _cache = <<>>
    /\ log = <<>>
    /\ call = NoCall
    /\ attempts = <<>>
    /\ used = {}
    /\ returned = {}
    /\ nobj = 0
    /\ ncalls = 0
    /\ det = DetIdle
    /\ cs = CsIdle
    /\ app = AppIdle
    /\ OthersIdle

\* ASTExtractor(): a dispatcher with an empty cache
ASTExtractor ==
    /\ Len(_cache) < MaxInstances
    /\ _cache' = Append(_cache, EmptyDict)
    /\ attempts' = Append(attempts, EmptyDict)
    /\ UNCHANGED <<_extractor, log, call, used, returned, nobj, ncalls, det, cs, app, otherVars>>

GetExtractor ==
    /\ ncalls < MaxCalls
    /\ LET r == get_extractor
       IN  /\ r.new => Len(_cache) < MaxInstances
           /\ _cache' = IF r.new THEN Append(_cache, EmptyDict) ELSE _cache
           /\ attempts' = IF r.new THEN Append(attempts, EmptyDict) ELSE attempts
           /\ _extractor' = r.ret
           /\ returned' = returned \cup {r.ret}
           /\ call' = [NoCall EXCEPT !.op = "get_extractor", !.self = r.ret]
    /\ ncalls' = ncalls + 1
    /\ UNCHANGED <<log, used, nobj, det, cs, app, otherVars>>

ExtractSkeleton ==
    /\ ncalls < MaxCalls
    /\ \E self \in DOMAIN _cache, file_name \in DispatchFiles, content \in Contents,
          verbose \in BOOLEAN, env \in Envs :
          \E r \in {extract_skeleton(self, file_name, content, verbose, env)} :
          LET n == IF r.lang \in DOMAIN attempts[self] THEN attempts[self][r.lang] ELSE 0
          IN  /\ _cache' = [_cache EXCEPT ![self] = r.cache]
              /\ log' = log \o r.warnings
              /\ attempts' = IF r.tried
                             THEN [attempts EXCEPT ![self] = Put(attempts[self], r.lang, n + 1)]
                             ELSE attempts
              /\ nobj' = IF r.tried /\ r.extractor # NoObject THEN nobj + 1 ELSE nobj
              /\ used' = IF r.extractor # NoObject
                         THEN used \cup {<<self, r.lang, r.extractor>>}
                         ELSE used
              /\ call' = [op |-> "extract_skeleton", self |-> self, file_name |-> file_name,
                          content |-> content, verbose |-> verbose, lang |-> r.lang,
                          extractor |-> r.extractor, tried |-> r.tried,
                          skeleton |-> r.skeleton,
                          threw |-> r.threw, raised |-> r.raised, result |-> r.result]
    /\ ncalls' = ncalls + 1
    /\ UNCHANGED <<_extractor, returned, det, cs, app, otherVars>>

Next == ASTExtractor \/ GetExtractor \/ ExtractSkeleton

Spec == Init /\ [][Next]_vars

(***************************************************************************)
(* Language detection on its own: _detect_language applied to one file     *)
(* name out of a family of names built from a stem and an ending.          *)
(***************************************************************************)
TableExtensions == {_EXT_MAP[i][1] : i \in 1..Len(_EXT_MAP)}

upper(s) ==
    [i \in 1..Len(s) |->
        IF \E k \in 1..Len(LowerCase) : LowerCase[k] = s[i]
        THEN UpperCase[CHOOSE k \in 1..Len(LowerCase) : LowerCase[k] = s[i]]
        ELSE s[i]]

\* every other letter in upper case: .pY, .tSx, .jAvA
mixed(s) == [i \in 1..Len(s) |-> IF i % 2 = 1 THEN upper(s)[i] ELSE s[i]]

Stems ==
    { <<>>, <<"a">>, <<"d", "/", "a">>, <<"d", "/">>, <<"a", ".", "b">>,
      <<"a", ".", "p", "y", "/", "b">>, <<".">> }

Endings ==
    TableExtensions
    \cup {upper(e) : e \in TableExtensions}
    \cup {mixed(e) : e \in TableExtensions}
    \cup { <<>>, <<".">>, <<".", "l", "u", "a">>, <<".", "p">>, <<".", "p", "y", "c">>,
           <<".", "c", "s", ".">>, <<".", "x", "y">>, <<"p", "y">>, <<".", "c", "s", "x">> }

DetectFiles == {stem \o ending : stem \in Stems, ending \in Endings}

InitDetect ==
    /\ _extractor = NoObject
    /\ _cache = <<>>
    /\ log = <<>>
    /\ call = NoCall
    /\ attempts = <<>>
    /\ used = {}
    /\ returned = {}
    /\ nobj = 0
    /\ ncalls = 0
    /\ det \in {[file_name |-> f, lang |-> None, done |-> FALSE] : f \in DetectFiles}
    /\ cs = CsIdle
    /\ app = AppIdle
    /\ OthersIdle

Detect ==
    /\ ~det.done
    /\ det' = [det EXCEPT !.lang = _detect_language(det.file_name), !.done = TRUE]
    /\ UNCHANGED <<dispatcherVars, cs, app, otherVars>>

NextDetect == Detect

SpecDetect == InitDetect /\ [][NextDetect]_vars

(***************************************************************************)
(* The C# extractor on its own: extract applied to one syntax tree out of  *)
(* a family of trees, as tree-sitter-c-sharp builds them.  The text of a   *)
(* node that the extractor never reads is left empty.                      *)
(***************************************************************************)
Leaf(type, text) == [type |-> type, text |-> text, field |-> "", children |-> <<>>]
Node(type, children) == [type |-> type, text |-> <<>>, field |-> "", children |-> children]

\* /// Doc A.
DocA == Leaf("comment", <<"/", "/", "/", " ", "Doc", " ", "A", ".">>)
\* /// <summary>Doc B.</summary>
DocB == Leaf("comment", <<"/", "/", "/", " ", "<", "summary", ">", "Doc", " ", "B", ".",
                          "<", "/", "summary", ">">>)
\* // note
PlainComment == Leaf("comment", <<"/", "/", " ", "note">>)
\* #nullable enable
NullableDirective == Leaf("nullable_directive", <<"#", "nullable", " ", "enable">>)

\* public int Add(int a) { ... }
MethodAdd ==
    Node("method_declaration",
         << Leaf("modifier", <<"public">>), Leaf("predefined_type", <<"int">>),
            Leaf("identifier", <<"Add">>), Leaf("parameter_list", <<"(", "int", " ", "a", ")">>),
            Leaf("block", <<>>) >>)

\* public <kind> <name> { <members> }
TypeDeclaration(type, keyword, name, members) ==
    Node(type,
         << Leaf("modifier", <<"public">>), Leaf(keyword, <<keyword>>),
            Leaf("identifier", <<name>>),
            Node("declaration_list", <<Leaf("{", <<"{">>)>> \o members \o <<Leaf("}", <<"}">>)>>) >>)

ClassA == TypeDeclaration("class_declaration", "class", "A", <<MethodAdd>>)
InterfaceI == TypeDeclaration("interface_declaration", "interface", "I", <<>>)
ClassB == TypeDeclaration("class_declaration", "class", "B", <<MethodAdd>>)
StructC == TypeDeclaration("struct_declaration", "struct", "C", <<>>)
RecordD == TypeDeclaration("record_declaration", "record", "D", <<>>)

\* namespace <name> { <members> }
Namespace(name, members) ==
    Node("namespace_declaration",
         << Leaf("namespace", <<"namespace">>), Leaf("identifier", <<name>>),
            Node("declaration_list", <<Leaf("{", <<"{">>)>> \o members \o <<Leaf("}", <<"}">>)>>) >>)

\* namespace App;   (the declarations that follow are siblings of this node)
FileScopedNamespace ==
    Node("file_scoped_namespace_declaration",
         << Leaf("namespace", <<"namespace">>), Leaf("identifier", <<"App">>),
            Leaf(";", <<";">>) >>)

\* using System;   using System.IO;
UsingSystem ==
    Node("using_directive",
         <<Leaf("using", <<"using">>), Leaf("identifier", <<"System">>), Leaf(";", <<";">>)>>)
UsingSystemIO ==
    Node("using_directive",
         << Leaf("using", <<"using">>), Leaf("qualified_name", <<"System", ".", "IO">>),
            Leaf(";", <<";">>) >>)

\* Property declarations, as tree-sitter-c-sharp builds them:
\*   property_declaration: modifier* type name (accessor_list | => e ;)
\*   accessor_declaration: (get | set | init) ;
MaxAccessors == 2

Field(node, name) == [node EXCEPT !.field = name]

\* get; set; init;  the keyword is the name field of the accessor (current grammar), or
\* a keyword child without a field (older grammars)
Accessor(keyword, named) ==
    Node("accessor_declaration",
         << IF named THEN Field(Leaf(keyword, <<keyword>>), "name") ELSE Leaf(keyword, <<keyword>>),
            Leaf(";", <<";">>) >>)

AccessorSamples == {Accessor(k, named) : k \in AccessorKeywords, named \in BOOLEAN}

AccessorList(accessors) ==
    Node("accessor_list", <<Leaf("{", <<"{">>)>> \o accessors \o <<Leaf("}", <<"}">>)>>)

\* int, Money (a user-defined type: a plain identifier), List<int>
PropertyTypes ==
    { Leaf("predefined_type", <<"int">>),
      Leaf("identifier", <<"Money">>),
      Leaf("generic_name", <<"List", "<", "int", ">">>) }

\* public <type> <name> <tail>
Property(type, name, tail) ==
    Node("property_declaration",
         << Leaf("modifier", <<"public">>), Field(type, "type"),
            Field(Leaf("identifier", <<name>>), "name") >> \o tail)

\* => 0;
ArrowBody == <<Leaf("arrow_expression_clause", <<"=", ">", " ", "0">>), Leaf(";", <<";">>)>>

PropertyTails ==
    {ArrowBody}
    \cup {<<AccessorList(a)>> : a \in SeqsUpTo(AccessorSamples, MaxAccessors) \ {<<>>}}

Properties == {Property(t, "Result", tail) : t \in PropertyTypes, tail \in PropertyTails}

\* public int Result { get; set; }
PropertyResult ==
    Property(Leaf("predefined_type", <<"int">>), "Result",
             <<AccessorList(<<Accessor("get", TRUE), Accessor("set", TRUE)>>)>>)

\* public E() { }
ConstructorE ==
    Node("constructor_declaration",
         << Leaf("modifier", <<"public">>), Leaf("identifier", <<"E">>),
            Leaf("parameter_list", <<"(", ")">>), Leaf("block", <<>>) >>)

\* private int x;
FieldX ==
    Node("field_declaration",
         << Leaf("modifier", <<"private">>), Leaf("variable_declaration", <<"int", " ", "x">>),
            Leaf(";", <<";">>) >>)

\* a class with a property, a constructor, a field and a method, in this order
ClassE ==
    TypeDeclaration("class_declaration", "class", "E",
                    <<PropertyResult, ConstructorE, FieldX, MethodAdd>>)

NamespaceBodies ==
    { <<>>,
      <<ClassB>>,
      <<DocB, ClassB>>,
      <<DocB, NullableDirective, ClassB, PlainComment, RecordD>>,
      <<ClassE, ClassB>>,
      <<Namespace("Inner", <<StructC>>)>>,
      <<ClassB, Namespace("Inner", <<DocB, StructC>>)>>,
      <<Namespace("Inner", <<Namespace("Innermost", <<RecordD>>)>>)>> }

RootItems ==
    { UsingSystem, UsingSystemIO, DocA, PlainComment, ClassA, InterfaceI, FileScopedNamespace,
      ClassE }
    \cup {Namespace("N", body) : body \in NamespaceBodies}

Trees == {Node("compilation_unit", children) : children \in SeqsUpTo(RootItems, MaxRoot)}

CSharpFile == <<"C", ".", "c", "s">>

InitCS ==
    /\ _extractor = NoObject
    /\ _cache = <<>>
    /\ log = <<>>
    /\ call = NoCall
    /\ attempts = <<>>
    /\ used = {}
    /\ returned = {}
    /\ nobj = 0
    /\ ncalls = 0
    /\ det = DetIdle
    /\ cs \in {[tree |-> t, skeleton |-> <<>>, done |-> FALSE] : t \in Trees}
    /\ app = AppIdle
    /\ OthersIdle

CSharpExtract ==
    /\ ~cs.done
    /\ cs' = [cs EXCEPT !.skeleton = <<CSharpExtractor_extract(CSharpFile, cs.tree)>>,
                        !.done = TRUE]
    /\ UNCHANGED <<dispatcherVars, det, app, otherVars>>

NextCS == CSharpExtract

SpecCS == InitCS /\ [][NextCS]_vars

(***************************************************************************)
(* _extract_method on its own: applied to one property declaration out of  *)
(* the family Properties.                                                  *)
\* int, void, Money (a user-defined type: a plain identifier), List<int>
MethodTypes == PropertyTypes \cup {Leaf("predefined_type", <<"void">>)}

\* (), (int a), and a list broken over lines
ParameterLists ==
    { <<"(", ")">>,
      <<"(", "int", " ", "a", ")">>,
      <<"(", "\n", "int", " ", "a", ",", "\n", "int", " ", "b", "\n", ")">> }

\* public <type> <name><parameters> { }
Method(type, name, parameters) ==
    Node("method_declaration",
         << Leaf("modifier", <<"public">>), Field(type, "returns"),
            Field(Leaf("identifier", <<name>>), "name"),
            Field(Leaf("parameter_list", parameters), "parameters"),
            Leaf("block", <<>>) >>)

MethodDeclarations == {Method(t, "Add", p) : t \in MethodTypes, p \in ParameterLists}

(***************************************************************************)
MemberDocs == {<<>>, <<"Current", " ", "result", ".">>}

InitMember ==
    /\ _extractor = NoObject
    /\ _cache = <<>>
    /\ log = <<>>
    /\ call = NoCall
    /\ attempts = <<>>
    /\ used = {}
    /\ returned = {}
    /\ nobj = 0
    /\ ncalls = 0
    /\ det = DetIdle
    /\ cs = CsIdle
    /\ app \in {[op |-> "_extract_method", node |-> n, docstring |-> d,
                 sig |-> FunctionSig(<<>>, <<>>, <<>>, <<>>), done |-> FALSE] :
                   n \in Properties \cup MethodDeclarations, d \in MemberDocs}
    /\ OthersIdle

ExtractMethod ==
    /\ ~app.done
    /\ app' = [app EXCEPT !.sig = _extract_method(app.node, app.docstring), !.done = TRUE]
    /\ UNCHANGED <<dispatcherVars, det, cs, otherVars>>

NextMember == ExtractMethod

SpecMember == InitMember /\ [][NextMember]_vars

(***************************************************************************)
(* _preceding_doc on its own: applied to the last node of one sibling list *)
(* out of a family, a method declaration after up to MaxSiblings comments, *)
(* directives and other declarations.  Each /// line is a comment node of  *)
(* its own, a /** */ block is one comment node.                            *)
(***************************************************************************)
MaxSiblings == 3

\* ///
DocEmpty == Leaf("comment", <<"/", "/", "/">>)
\* /// Returns a List<int>.
DocGeneric ==
    Leaf("comment", <<"/", "/", "/", " ", "Returns", " ", "a", " ", "List", "<", "int", ">", ".">>)
\* /**
\*  * Summary.
\*  *
\*  * Detail.
\*  */
DocBlock ==
    Leaf("comment", <<"/", "*", "*", "\n", " ", "*", " ", "Summary", ".", "\n", " ", "*", "\n",
                      " ", "*", " ", "Detail", ".", "\n", " ", "*", "/">>)
\* /// <summary>
DocSummaryOpen == Leaf("comment", <<"/", "/", "/", " ", "<", "summary", ">">>)
\* #region R
PreprocessorDirective == Leaf("preprocessor_directive", <<"#", "region", " ", "R">>)

SiblingSamples ==
    { DocA, DocB, DocEmpty, DocGeneric, DocBlock, DocSummaryOpen, PlainComment,
      NullableDirective, PreprocessorDirective, MethodAdd }

SiblingLists == {above \o <<MethodAdd>> : above \in SeqsUpTo(SiblingSamples, MaxSiblings)}

InitDoc ==
    /\ _extractor = NoObject
    /\ _cache = <<>>
    /\ log = <<>>
    /\ call = NoCall
    /\ attempts = <<>>
    /\ used = {}
    /\ returned = {}
    /\ nobj = 0
    /\ ncalls = 0
    /\ det = DetIdle
    /\ cs = CsIdle
    /\ app \in {[op |-> "_preceding_doc", siblings |-> l, idx |-> Len(l),
                 docstring |-> <<>>, done |-> FALSE] : l \in SiblingLists}
    /\ OthersIdle

PrecedingDoc ==
    /\ ~app.done
    /\ app' = [app EXCEPT !.docstring = _preceding_doc(app.siblings, app.idx), !.done = TRUE]
    /\ UNCHANGED <<dispatcherVars, det, cs, otherVars>>

NextDoc == PrecedingDoc

SpecDoc == InitDoc /\ [][NextDoc]_vars

(***************************************************************************)
(* to_text on its own: applied to one skeleton out of a family built from  *)
(* the skeletons of TestSkeletonToText and from docstrings as the C#       *)
(* extractor stores them for /// <summary> blocks (first and last line     *)
(* empty).  A docstring is a sequence of lines of text and "\n" chunks.    *)
(***************************************************************************)
MaxClasses == 1
MaxFunctions == 1

\* "One liner."
OneLiner == <<"One liner.">>
\* MULTILINE_DOC
MultiLine ==
    <<"First line summary.", "\n", "\n", "More details here.", "\n", "Args:", "\n",
      "    x: an integer.">>
\* "\nCurrent result.\n"
SummaryBlock == <<"\n", "Current result.", "\n">>
\* "\nAdd two integers.\n\nFirst operand\n"
SummaryAndParam == <<"\n", "Add two integers.", "\n", "\n", "First operand", "\n">>

ModuleDocs ==
    { <<>>, <<"A foo module.">>,
      <<"Module for parsing things.", "\n", "\n", "This module provides utilities.">> }

\* the raw parameter text of parse_async: one parameter per line
MultiLineParams == <<"\n", "self,", "\n", "source: str,", "\n">>

MethodSamples ==
    {FunctionSig(<<"run">>, <<"self">>, <<"None">>, d) : d \in {OneLiner, SummaryBlock}}
    \cup {FunctionSig(<<"parse_async">>, MultiLineParams, <<"List[str]">>, MultiLine)}

ClassSamples ==
    {ClassSkeleton(<<"Foo">>, IF methods = <<>> THEN <<>> ELSE << <<"Base">> >>, d, methods) :
        d \in {<<>>, OneLiner, MultiLine, SummaryBlock, SummaryAndParam},
        methods \in {<<>>} \cup {<<m>> : m \in MethodSamples}}

FunctionSamples ==
    {FunctionSig(<<"helper">>, <<"x: int">>, <<"bool">>, d) :
        d \in {<<>>, MultiLine, SummaryAndParam}}
    \cup {FunctionSig(<<"standalone">>, MultiLineParams, <<"str">>, OneLiner)}

TextFiles == { <<<<"foo.py">>, "Python">>, <<<<"Calculator.cs">>, "C#">> }

Skeletons ==
    {CodeSkeleton(f[1], f[2], m, IF m = <<>> THEN <<>> ELSE << <<"os">>, <<"sys">> >>, cl, fn) :
        f \in TextFiles, m \in ModuleDocs,
        cl \in SeqsUpTo(ClassSamples, MaxClasses), fn \in SeqsUpTo(FunctionSamples, MaxFunctions)}

InitText ==
    /\ _extractor = NoObject
    /\ _cache = <<>>
    /\ log = <<>>
    /\ call = NoCall
    /\ attempts = <<>>
    /\ used = {}
    /\ returned = {}
    /\ nobj = 0
    /\ ncalls = 0
    /\ det = DetIdle
    /\ cs = CsIdle
    /\ app \in {[op |-> "to_text", skeleton |-> sk, verbose |-> v, text |-> <<>>,
                 done |-> FALSE] : sk \in Skeletons, v \in BOOLEAN}
    /\ OthersIdle

ToText ==
    /\ ~app.done
    /\ app' = [app EXCEPT !.text = to_text(app.skeleton, app.verbose), !.done = TRUE]
    /\ UNCHANGED <<dispatcherVars, det, cs, otherVars>>

NextText == ToText

SpecText == InitText /\ [][NextText]_vars

(***************************************************************************)
(* async_writer.py: AsyncRecordWriter.  One writer, constructed with its   *)
(* writer thread started; one thread that calls write_record toWrite times *)
(* in a row; one thread that calls stop() once.  Each step is one access   *)
(* to the shared queue or event.  The clock (flush_interval, the timeout   *)
(* of get) and the outcome of the file write are choices of the            *)
(* environment; os._exit ends every thread.                                *)
(***************************************************************************)
MaxRecords == 2

\* the batch_size the writer is constructed with (100 by default)
BatchSizes == {1, 100}

\* None, the item stop() puts; the records are numbered from 1
Sentinel == 0

\* _flush_batch: the batch appended to the file, or the process exited when the write fails
_flush_batch(w, ok) ==
    IF w.batch = <<>> THEN w
    ELSE IF ok THEN [w EXCEPT !.file = @ \o w.batch, !.batch = <<>>]
    ELSE [w EXCEPT !.exited = TRUE]

InitWriter ==
    /\ _extractor = NoObject
    /\ _cache = <<>>
    /\ log = <<>>
    /\ call = NoCall
    /\ attempts = <<>>
    /\ used = {}
    /\ returned = {}
    /\ nobj = 0
    /\ ncalls = 0
    /\ det = DetIdle
    /\ cs = CsIdle
    /\ app = AppIdle
    /\ recorder = RecorderIdle
    /\ fs = FsIdle
    /\ threads = NoThreads
    /\ writer \in {[started |-> TRUE, batch_size |-> b, _queue |-> <<>>, _stop_event |-> FALSE,
                    batch |-> <<>>, file |-> <<>>, thread |-> "while",
                    caller |-> "idle", toWrite |-> n, accepted |-> <<>>,
                    stopper |-> "idle", stopAt |-> 0, exited |-> FALSE] :
                      b \in BatchSizes, n \in 0..MaxRecords}

WriterVars == <<dispatcherVars, det, cs, app, recorder, fs, threads>>

\* _writer_loop, line 94: the loop condition
WriterWhile ==
    /\ ~writer.exited /\ writer.thread = "while"
    /\ writer' = [writer EXCEPT !.thread = IF writer._stop_event THEN "after" ELSE "get"]
    /\ UNCHANGED WriterVars

\* _writer_loop, lines 96-109: get() returns an item of the queue
WriterGet ==
    /\ ~writer.exited /\ writer.thread = "get" /\ writer._queue # <<>>
    /\ \E elapsed \in BOOLEAN, ok \in BOOLEAN :
          LET record == Head(writer._queue)
              got == [writer EXCEPT !._queue = Tail(@)]
              appended == [got EXCEPT !.batch = Append(@, record), !.thread = "while"]
          IN  writer' =
                  IF record = Sentinel THEN [got EXCEPT !.thread = "after"]
                  ELSE IF Len(appended.batch) >= writer.batch_size \/ elapsed
                  THEN _flush_batch(appended, ok)
                  ELSE appended
    /\ UNCHANGED WriterVars

\* _writer_loop, lines 111-116: get() times out on an empty queue
WriterEmpty ==
    /\ ~writer.exited /\ writer.thread = "get" /\ writer._queue = <<>>
    /\ \E elapsed \in BOOLEAN, ok \in BOOLEAN :
          writer' = IF writer.batch # <<>> /\ elapsed
                    THEN _flush_batch([writer EXCEPT !.thread = "while"], ok)
                    ELSE [writer EXCEPT !.thread = "while"]
    /\ UNCHANGED WriterVars

\* _writer_loop, lines 118-119: the last flush, then the thread ends
WriterAfter ==
    /\ ~writer.exited /\ writer.thread = "after"
    /\ \E ok \in BOOLEAN : writer' = _flush_batch([writer EXCEPT !.thread = "ended"], ok)
    /\ UNCHANGED WriterVars

\* write_record, lines 146-148: the check of the stop event
WriteRecordCheck ==
    /\ ~writer.exited /\ writer.caller = "idle" /\ Len(writer.accepted) < writer.toWrite
    /\ writer' = IF writer._stop_event THEN [writer EXCEPT !.exited = TRUE]
                 ELSE [writer EXCEPT !.caller = "put"]
    /\ UNCHANGED WriterVars

\* write_record, line 150: the record is put; records are numbered as they are accepted
WriteRecordPut ==
    /\ ~writer.exited /\ writer.caller = "put"
    /\ writer' = [writer EXCEPT !._queue = Append(@, Len(writer.accepted) + 1),
                                !.accepted = Append(@, Len(writer.accepted) + 1),
                                !.caller = "idle"]
    /\ UNCHANGED WriterVars

\* stop, lines 159-160: the call and its check; stopAt counts the records accepted so far
StopCheck ==
    /\ ~writer.exited /\ writer.stopper = "idle"
    /\ writer' = [writer EXCEPT !.stopper = IF writer._stop_event THEN "done" ELSE "set",
                                !.stopAt = Len(writer.accepted)]
    /\ UNCHANGED WriterVars

\* stop, line 162
StopSet ==
    /\ ~writer.exited /\ writer.stopper = "set"
    /\ writer' = [writer EXCEPT !._stop_event = TRUE, !.stopper = "put"]
    /\ UNCHANGED WriterVars

\* stop, line 163
StopPut ==
    /\ ~writer.exited /\ writer.stopper = "put"
    /\ writer' = [writer EXCEPT !._queue = Append(@, Sentinel), !.stopper = "join"]
    /\ UNCHANGED WriterVars

\* stop, lines 165-168: join returns when the thread has ended or the timeout has passed
StopJoin ==
    /\ ~writer.exited /\ writer.stopper = "join"
    /\ writer' = [writer EXCEPT !.stopper = "done"]
    /\ UNCHANGED WriterVars

NextWriter ==
    \/ WriterWhile \/ WriterGet \/ WriterEmpty \/ WriterAfter
    \/ WriteRecordCheck \/ WriteRecordPut
    \/ StopCheck \/ StopSet \/ StopPut \/ StopJoin

SpecWriter == InitWriter /\ [][NextWriter]_vars

(***************************************************************************)
(* server/config.py: the server section of ov.conf is loaded into a        *)
(* ServerConfig and validated before the server starts.                    *)
(***************************************************************************)

\* Optional[str]: None, or a string
Unset == [none |-> TRUE, value |-> ""]
Some(s) == [none |-> FALSE, value |-> s]

\* the truth value Python gives an Optional[str]
Truthy(o) == ~o.none /\ o.value # ""

_LOCALHOST_HOSTS == {"127.0.0.1", "localhost", "::1"}

\* a variant that takes every host for a loopback address
_is_localhost_any(host) == host = host

_is_localhost(host) == host \in _LOCALHOST_HOSTS

\* dict.get(key, default) on the server section; a missing key is Unset here
Get(d, key, default) == IF d[key].none THEN default ELSE d[key].value

HostSamples == {"127.0.0.1", "localhost", "::1", "0.0.0.0", "192.168.1.5",
                "LOCALHOST", "127.0.0.2", "example.com", ""}

KeySamples == {"", "secret", " "}

\* the server section of ov.conf: each key present or missing
ServerSections ==
    [host : {Unset} \cup {Some(h) : h \in HostSamples},
     root_api_key : {Unset} \cup {Some(k) : k \in KeySamples}]

InitConfig ==
    /\ _extractor = NoObject
    /\ _cache = <<>>
    /\ log = <<>>
    /\ call = NoCall
    /\ attempts = <<>>
    /\ used = {}
    /\ returned = {}
    /\ nobj = 0
    /\ ncalls = 0
    /\ det = DetIdle
    /\ cs = CsIdle
    /\ OthersIdle
    /\ app \in {[op |-> "validate_server_config", server_data |-> d,
                 config |-> [host |-> "", root_api_key |-> Unset],
                 loaded |-> FALSE, exited |-> FALSE, done |-> FALSE] :
                   d \in ServerSections}

\* load_server_config, lines 63-72
LoadServerConfig ==
    /\ app.op = "validate_server_config"
    /\ ~app.loaded
    /\ app' = [app EXCEPT
                 !.config = [host |-> Get(app.server_data, "host", "127.0.0.1"),
                             root_api_key |-> app.server_data.root_api_key],
                 !.loaded = TRUE]
    /\ UNCHANGED <<dispatcherVars, det, cs, otherVars>>

\* validate_server_config: TRUE when it calls sys.exit(1)
validate_server_config(config) ==
    IF Truthy(config.root_api_key) THEN FALSE
    ELSE ~_is_localhost(config.host)

ValidateServerConfig ==
    /\ app.op = "validate_server_config"
    /\ app.loaded
    /\ ~app.done
    /\ app' = [app EXCEPT !.exited = validate_server_config(app.config),
                          !.done = TRUE]
    /\ UNCHANGED <<dispatcherVars, det, cs, otherVars>>

NextConfig == LoadServerConfig \/ ValidateServerConfig

SpecConfig == InitConfig /\ [][NextConfig]_vars

(***************************************************************************)
(* extractor.py: one dispatcher used from several threads.  Each call of   *)
(* extract_skeleton runs on its own thread; the steps of _get_extractor    *)
(* (the look-up in the cache, the construction, the store) and the         *)
(* extraction interleave freely, each access to the dict being atomic.     *)
(***************************************************************************)
MaxThreads == 3

Threads == 1..MaxThreads

\* the file names the threads pass: util.py, script.lua
RaceFiles == { <<"u", ".", "p", "y">>, <<"s", ".", "l", "u", "a">> }

ThreadIdle ==
    [pc |-> "idle", file_name |-> <<>>, content |-> "", lang |-> None,
     extractor |-> NoObject, tried |-> FALSE, late |-> FALSE, threw |-> FALSE,
     result |-> NoneResult]

\* no call is between its look-up in the cache and its return
Quiet == \A u \in DOMAIN threads : threads[u].pc \in {"idle", "done"}

InitRace ==
    /\ _extractor = NoObject
    /\ _cache = <<EmptyDict>>
    /\ log = <<>>
    /\ call = NoCall
    /\ attempts = <<>>
    /\ used = {}
    /\ returned = {}
    /\ nobj = 0
    /\ ncalls = 0
    /\ det = DetIdle
    /\ cs = CsIdle
    /\ app = AppIdle
    /\ writer = WriterIdle
    /\ recorder = RecorderIdle
    /\ fs = FsIdle
    /\ threads = [t \in Threads |-> ThreadIdle]

RaceVars == <<_extractor, call, attempts, used, returned, ncalls, det, cs, app,
              writer, recorder, fs>>

\* the variant of the store that leaves the cache as it was
Store_dropped(cache, lang, extractor) == cache

\* self._cache[lang] = extractor (lines 71 and 75)
Store(cache, lang, extractor) == Put(cache, lang, extractor)

\* extract_skeleton, line 88: the call starts and detects the language; the call is a
\* later one when it starts with the language cached and no other call under way
RaceCall(t) ==
    /\ threads[t].pc = "idle"
    /\ \E file_name \in RaceFiles, content \in {"doc"} :
          LET lang == _detect_language(file_name)
          IN  threads' = [threads EXCEPT ![t] =
                  [ThreadIdle EXCEPT !.pc = "check", !.file_name = file_name,
                                     !.content = content, !.lang = lang,
                                     !.late = Quiet /\ lang \in DOMAIN _cache[1]]]
    /\ UNCHANGED <<_cache, log, nobj, RaceVars>>

\* _get_extractor, lines 60-64: the registry check and the look-up in the cache
RaceCheck(t) ==
    /\ threads[t].pc = "check"
    /\ LET lang == threads[t].lang
       IN  threads' = [threads EXCEPT ![t] =
               IF lang = None \/ lang \notin _EXTRACTOR_REGISTRY
               THEN [@ EXCEPT !.pc = "done"]
               ELSE IF lang \in DOMAIN _cache[1]
               THEN [@ EXCEPT !.extractor = _cache[1][lang],
                              !.pc = IF _cache[1][lang] = NoObject THEN "done" ELSE "extract"]
               ELSE [@ EXCEPT !.pc = "construct"]]
    /\ UNCHANGED <<_cache, log, nobj, RaceVars>>

\* _get_extractor, lines 66-70 and 72-74: the import and the construction, which
\* succeed or raise; the failure is logged
RaceConstruct(t) ==
    /\ threads[t].pc = "construct"
    /\ \E importOk \in BOOLEAN :
          /\ threads' = [threads EXCEPT ![t] =
                 [@ EXCEPT !.pc = "store", !.tried = TRUE,
                           !.extractor = IF importOk THEN nobj + 1 ELSE NoObject]]
          /\ nobj' = IF importOk THEN nobj + 1 ELSE nobj
          /\ log' = IF importOk THEN log
                    ELSE Append(log, UnavailableWarning(1, threads[t].lang))
    /\ UNCHANGED <<_cache, RaceVars>>

\* _get_extractor, lines 71 and 75-76: the store, and the return
RaceStore(t) ==
    /\ threads[t].pc = "store"
    /\ _cache' = [_cache EXCEPT ![1] = Store(@, threads[t].lang, threads[t].extractor)]
    /\ threads' = [threads EXCEPT ![t] =
           [@ EXCEPT !.pc = IF threads[t].extractor = NoObject THEN "done" ELSE "extract"]]
    /\ UNCHANGED <<log, nobj, RaceVars>>

\* extract_skeleton, lines 93-98: the extraction and the rendering, which return the
\* text or raise; the failure is logged
RaceExtract(t) ==
    /\ threads[t].pc = "extract"
    /\ \E raises \in BOOLEAN :
          /\ threads' = [threads EXCEPT ![t] =
                 [@ EXCEPT !.pc = "done", !.threw = raises,
                           !.result = IF raises THEN NoneResult
                                      ELSE StrResult(to_text(LanguageExtractor_extract(
                                               threads[t].lang, threads[t].file_name,
                                               threads[t].content), FALSE))]]
          /\ log' = IF raises
                    THEN Append(log, FailedWarning(1, threads[t].file_name, threads[t].lang))
                    ELSE log
    /\ UNCHANGED <<_cache, nobj, RaceVars>>

NextRace ==
    \E t \in Threads :
        RaceCall(t) \/ RaceCheck(t) \/ RaceConstruct(t) \/ RaceStore(t) \/ RaceExtract(t)

SpecRace == InitRace /\ [][NextRace]_vars

(***************************************************************************)
(* eval/recorder/wrapper.py: RecordingVikingFS.  The wrapped operations    *)
(* are coroutines on one event loop: between two of their steps another    *)
(* operation may run.  The wrapped VikingFS reads its agfs attribute at    *)
(* each AGFS call it makes.                                                *)
(***************************************************************************)
MaxOps == 2
MaxAgfsCalls == 2

Ops == 1..MaxOps

\* the AGFS client the VikingFS was constructed with; the collectors are numbered
\* from 1, by the operation that created them
OriginalAgfs == 0

OpIdle ==
    [pc |-> "idle", wraps |-> OriginalAgfs, calls |-> <<>>, made |-> <<>>,
     agfs_calls |-> <<>>, success |-> FALSE]

InitFS ==
    /\ _extractor = NoObject
    /\ _cache = <<>>
    /\ log = <<>>
    /\ call = NoCall
    /\ attempts = <<>>
    /\ used = {}
    /\ returned = {}
    /\ nobj = 0
    /\ ncalls = 0
    /\ det = DetIdle
    /\ cs = CsIdle
    /\ app = AppIdle
    /\ writer = WriterIdle
    /\ recorder = RecorderIdle
    /\ threads = NoThreads
    /\ fs = [started |-> TRUE, agfs |-> OriginalAgfs, _original_agfs |-> OriginalAgfs,
             ops |-> [o \in Ops |-> OpIdle]]

FSVars == <<dispatcherVars, det, cs, app, writer, recorder, threads>>

\* _AGFSCallCollector.__getattr__: the collectors a call through the client a passes,
\* each of which appends the call to its list and hands it to the client it wraps
RECURSIVE Collectors(_, _)
Collectors(ops, a) ==
    IF a = OriginalAgfs THEN {} ELSE {a} \cup Collectors(ops, ops[a].wraps)

\* wrapped_async, lines 117-121: a collector around the current client is installed
WrappedEnter(o) ==
    /\ fs.started
    /\ fs.ops[o].pc = "idle"
    /\ fs' = [fs EXCEPT !.ops[o] = [@ EXCEPT !.pc = "running", !.wraps = fs.agfs],
                        !.agfs = o]
    /\ UNCHANGED FSVars

\* the wrapped operation makes an AGFS call through the client installed just now
AgfsCall(o) ==
    /\ fs.started
    /\ fs.ops[o].pc = "running"
    /\ Len(fs.ops[o].made) < MaxAgfsCalls
    /\ LET c == <<o, Len(fs.ops[o].made) + 1>>
           through == Collectors(fs.ops, fs.agfs)
       IN  fs' = [fs EXCEPT !.ops = [p \in Ops |->
                     [fs.ops[p] EXCEPT
                         !.made = IF p = o THEN Append(@, c) ELSE @,
                         !.calls = IF p \in through THEN Append(@, c) ELSE @]]]
    /\ UNCHANGED FSVars

\* wrapped_async, lines 124-149: the operation returns or raises, the record is
\* written with the collector's calls, and the client is put back
WrappedExit(o) ==
    /\ fs.started
    /\ fs.ops[o].pc = "running"
    /\ \E ok \in BOOLEAN :
          fs' = [fs EXCEPT !.ops[o] = [@ EXCEPT !.pc = "done", !.success = ok,
                                                !.agfs_calls = fs.ops[o].calls],
                           !.agfs = fs._original_agfs]
    /\ UNCHANGED FSVars

NextFS == \E o \in Ops : WrappedEnter(o) \/ AgfsCall(o) \/ WrappedExit(o)

SpecFS == InitFS /\ [][NextFS]_vars

(***************************************************************************)
(* eval/recorder/recorder.py: the IORecorder singleton.  get_instance and  *)
(* initialize run on several threads; each read or write of the class      *)
(* attribute and each operation on the lock is one step.                   *)
(***************************************************************************)
MaxCallers == 3

Callers == 1..MaxCallers

\* threading.Lock(): free, or held by a caller
Free == 0

CallerIdle == [pc |-> "idle", op |-> "none", ret |-> NoObject, installed |-> NoObject,
               late |-> FALSE]

InitRecorder ==
    /\ _extractor = NoObject
    /\ _cache = <<>>
    /\ log = <<>>
    /\ call = NoCall
    /\ attempts = <<>>
    /\ used = {}
    /\ returned = {}
    /\ nobj = 0
    /\ ncalls = 0
    /\ det = DetIdle
    /\ cs = CsIdle
    /\ app = AppIdle
    /\ writer = WriterIdle
    /\ fs = FsIdle
    /\ threads = NoThreads
    /\ recorder = [started |-> TRUE, _instance |-> NoObject, _lock |-> Free,
                   constructed |-> 0, callers |-> [t \in Callers |-> CallerIdle]]

RecorderVars == <<dispatcherVars, det, cs, app, writer, fs, threads>>

\* a variant of the test that always asks for a new instance
IsNone_always(instance) == instance = instance

\* cls._instance is None
IsNone(instance) == instance = NoObject

\* the initialize calls that have returned
Initialized ==
    {u \in DOMAIN recorder.callers :
        recorder.callers[u].op = "initialize" /\ recorder.callers[u].pc = "done"}

\* a thread calls get_instance or initialize; the call is a later one when an
\* initialize call has returned before
RecorderCall(t) ==
    /\ recorder.started
    /\ recorder.callers[t].pc = "idle"
    /\ \E op \in {"get_instance", "initialize"} :
          recorder' = [recorder EXCEPT !.callers[t] =
              [@ EXCEPT !.op = op, !.late = Initialized # {},
                        !.pc = IF op = "initialize" THEN "acquire" ELSE "check"]]
    /\ UNCHANGED RecorderVars

\* get_instance, line 76: the first test, outside the lock
GetCheck(t) ==
    /\ recorder.started
    /\ recorder.callers[t].pc = "check"
    /\ recorder' = [recorder EXCEPT !.callers[t].pc =
                       IF recorder._instance = NoObject THEN "acquire" ELSE "return"]
    /\ UNCHANGED RecorderVars

\* with cls._lock (lines 77 and 85): the lock is taken when it is free
Acquire(t) ==
    /\ recorder.started
    /\ recorder.callers[t].pc = "acquire"
    /\ recorder._lock = Free
    /\ recorder' = [recorder EXCEPT !._lock = t,
                       !.callers[t].pc = IF recorder.callers[t].op = "initialize"
                                         THEN "construct" ELSE "recheck"]
    /\ UNCHANGED RecorderVars

\* get_instance, line 78: the second test, under the lock
GetRecheck(t) ==
    /\ recorder.started
    /\ recorder.callers[t].pc = "recheck"
    /\ recorder' = [recorder EXCEPT !.callers[t].pc =
                       IF IsNone(recorder._instance) THEN "construct" ELSE "release"]
    /\ UNCHANGED RecorderVars

\* lines 79 and 86: an IORecorder is constructed and installed, under the lock
Construct(t) ==
    /\ recorder.started
    /\ recorder.callers[t].pc = "construct"
    /\ recorder' = [recorder EXCEPT !._instance = recorder.constructed + 1,
                       !.constructed = @ + 1,
                       !.callers[t] = [@ EXCEPT !.pc = "release",
                                                !.installed = recorder.constructed + 1]]
    /\ UNCHANGED RecorderVars

\* the end of the with block: the lock is released
Release(t) ==
    /\ recorder.started
    /\ recorder.callers[t].pc = "release"
    /\ recorder' = [recorder EXCEPT !._lock = Free, !.callers[t].pc = "return"]
    /\ UNCHANGED RecorderVars

\* return cls._instance (lines 80 and 87)
Return(t) ==
    /\ recorder.started
    /\ recorder.callers[t].pc = "return"
    /\ recorder' = [recorder EXCEPT !.callers[t] =
                       [@ EXCEPT !.pc = "done", !.ret = recorder._instance]]
    /\ UNCHANGED RecorderVars

NextRecorder ==
    \E t \in Callers :
        \/ RecorderCall(t) \/ GetCheck(t) \/ Acquire(t) \/ GetRecheck(t)
        \/ Construct(t) \/ Release(t) \/ Return(t)

SpecRecorder == InitRecorder /\ [][NextRecorder]_vars

(***************************************************************************)
(* Properties of the dispatcher.                                           *)
(***************************************************************************)
ExtractStep == ncalls' = ncalls + 1 /\ call'.op = "extract_skeleton"

TableLanguage(e) ==
    CASE e = <<".", "p", "y">> -> "python"
      [] e \in { <<".", "j", "s">>, <<".", "j", "s", "x">> } -> "javascript"
      [] e \in { <<".", "t", "s">>, <<".", "t", "s", "x">> } -> "typescript"
      [] e = <<".", "j", "a", "v", "a">> -> "java"
      [] e \in { <<".", "c">>, <<".", "c", "p", "p">>, <<".", "c", "c">>, <<".", "h">>,
                 <<".", "h", "p", "p">> } -> "cpp"
      [] e = <<".", "r", "s">> -> "rust"
      [] e = <<".", "g", "o">> -> "go"
      [] e = <<".", "c", "s">> -> "csharp"
      [] OTHER -> None

TableEndings ==
    { <<".", "p", "y">>, <<".", "j", "s">>, <<".", "j", "s", "x">>, <<".", "t", "s">>,
      <<".", "t", "s", "x">>, <<".", "j", "a", "v", "a">>, <<".", "c">>,
      <<".", "c", "p", "p">>, <<".", "c", "c">>, <<".", "h">>, <<".", "h", "p", "p">>,
      <<".", "r", "s">>, <<".", "g", "o">>, <<".", "c", "s">> }

\* the file name ends in the extension e in any letter case, and e is the extension of
\* a file: something other than a path separator stands before it
HasExtension(file_name, e) ==
    /\ Len(file_name) > Len(e)
    /\ lower(SubSeq(file_name, Len(file_name) - Len(e) + 1, Len(file_name))) = e
    /\ file_name[Len(file_name) - Len(e)] # "/"

InExtensionTable(file_name) == \E e \in TableEndings : HasExtension(file_name, e)

\* C2: for a file name whose extension is not in the extension table, extract_skeleton
\* returns None, raises nothing, logs nothing, attempts no construction and leaves the
\* cache of the dispatcher as it was.
C2_UnknownExtensionSilent ==
    [][ (ExtractStep /\ ~InExtensionTable(call'.file_name)) =>
          /\ call'.result = NoneResult
          /\ ~call'.raised
          /\ log' = log
          /\ attempts' = attempts
          /\ nobj' = nobj
          /\ _cache' = _cache ]_vars

\* script.lua was given to a dispatcher that already holds an extractor
C2_Witness ==
    /\ call.op = "extract_skeleton"
    /\ call.file_name = <<"s", ".", "l", "u", "a">>
    /\ call.result = NoneResult
    /\ DOMAIN _cache[call.self] # {}

ConstructionFailed(self, lang) == \E i \in 1..Len(log) : log[i] = UnavailableWarning(self, lang)

AttemptsOf(self, lang) == IF lang \in DOMAIN attempts[self] THEN attempts[self][lang] ELSE 0

\* C3: once construction of a language's extractor has failed in a dispatcher, every
\* later extract_skeleton call for that language on that dispatcher returns None
\* without another construction attempt, and the 'unavailable' warning of that language
\* and dispatcher is in the log exactly once.
C3_FailureMemoised ==
    [][ /\ \A self \in DOMAIN _cache' : \A lang \in _EXTRACTOR_REGISTRY :
              ConstructionFailed(self, lang)' =>
                 /\ Count(log', UnavailableWarning(self, lang)) = 1
                 /\ AttemptsOf(self, lang)' = 1
        /\ (ExtractStep /\ ConstructionFailed(call'.self, call'.lang)) =>
              /\ call'.result = NoneResult
              /\ call'.extractor = NoObject
              /\ ~call'.tried
              /\ log' = log ]_vars

\* a call for a language whose construction had failed before on this dispatcher
C3_Witness ==
    /\ call.op = "extract_skeleton"
    /\ call.lang # None
    /\ ~call.tried
    /\ ConstructionFailed(call.self, call.lang)
    /\ call.result = NoneResult

\* C4: on one dispatcher each language's extractor is constructed at most once, and
\* all extractions for a language run on one and the same extractor object.
C4_ConstructedOnce ==
    \A self \in DOMAIN _cache : \A lang \in _EXTRACTOR_REGISTRY :
        /\ AttemptsOf(self, lang) <= 1
        /\ Cardinality({t \in used : t[1] = self /\ t[2] = lang}) <= 1

\* an extraction that ran on the extractor cached by an earlier call
C4_Witness ==
    /\ call.op = "extract_skeleton"
    /\ call.extractor # NoObject
    /\ ~call.tried
    /\ call.result.kind = "str"
    /\ AttemptsOf(call.self, call.lang) = 1

Contains(lines, chunk) == \E i \in 1..Len(lines) : \E j \in 1..Len(lines[i]) : lines[i][j] = chunk

\* C6: a successful extract_skeleton(file_name, content, verbose) returns exactly
\* extractor.extract(file_name, content).to_text(verbose=verbose); for the content with
\* the multi-line docstring the detail line is in the result exactly when verbose is set.
C6_VerbosePassedThrough ==
    (call.op = "extract_skeleton" /\ call.result.kind = "str") =>
        /\ call.skeleton = <<LanguageExtractor_extract(call.lang, call.file_name, call.content)>>
        /\ call.result.text = to_text(call.skeleton[1], call.verbose)
        /\ call.content = "doc" =>
              /\ Contains(call.result.text, SummaryLine)
              /\ Contains(call.result.text, DetailLine) <=> call.verbose

\* the verbose rendering of the multi-line docstring was returned
C6_Witness ==
    /\ call.op = "extract_skeleton"
    /\ call.result.kind = "str"
    /\ call.content = "doc"
    /\ call.verbose
    /\ Contains(call.result.text, DetailLine)

\* C7: every call of get_extractor() returns the same ASTExtractor instance: the one the
\* first call created, which is the module-level singleton and is never replaced.
C7_Singleton ==
    /\ Cardinality(returned) <= 1
    /\ returned # {} => returned = {_extractor}
    /\ _extractor # NoObject => _extractor \in DOMAIN _cache
    /\ call.op = "get_extractor" => call.self = _extractor

\* two calls of get_extractor(), the second one returning the instance of the first
C7_Witness ==
    /\ ncalls = 2
    /\ call.op = "get_extractor"
    /\ Len(_cache) = 1
    /\ _extractor = 1
    /\ returned = {1}

(***************************************************************************)
(* Properties of language detection.                                       *)
(***************************************************************************)
\* C5: language detection maps exactly the extensions of the fixed table to their
\* languages, whatever the letter case of the extension; every detected key has a
\* registry entry; every other file name yields no language.
C5_DetectLanguage ==
    det.done =>
        /\ \A e \in TableEndings : HasExtension(det.file_name, e) => det.lang = TableLanguage(e)
        /\ (\A e \in TableEndings : ~HasExtension(det.file_name, e)) => det.lang = None
        /\ det.lang # None => det.lang \in _EXTRACTOR_REGISTRY

\* d/a.tSx (mixed case, inside a directory) was detected as TypeScript
C5_Witness ==
    /\ det.done
    /\ det.file_name = <<"d", "/", "a", ".", "t", "S", "x">>
    /\ det.lang = "typescript"

(***************************************************************************)
(* Properties of the C# extractor.                                         *)
(***************************************************************************)
Range(s) == {s[i] : i \in 1..Len(s)}

\* the classes of a skeleton as pairs of name and docstring
Declared(sk) ==
    [i \in 1..Len(sk.classes) |->
        [name |-> sk.classes[i].name, docstring |-> sk.classes[i].docstring]]

DeclaredName(node) ==
    LET ids == SelectSeq(node.children, LAMBDA n : n.type = "identifier")
    IN  IF ids = <<>> THEN <<>> ELSE ids[1].text

BodyOf(node) ==
    Flatten([i \in 1..Len(node.children) |->
        IF node.children[i].type = "declaration_list" THEN node.children[i].children ELSE <<>>])

\* the type declarations of a sibling list and of the block-scoped namespaces in it, at
\* any depth, in source order, each with the doc comment that precedes it among its
\* siblings.  depth counts the namespaces around the list; a declaration counts when it is
\* at least minDepth namespaces deep, or whatever its depth when outside is set.
RECURSIVE DeclaredIn(_, _, _, _, _)
DeclaredIn(siblings, i, depth, outside, minDepth) ==
    IF i > Len(siblings) THEN <<>>
    ELSE LET n == siblings[i]
             here ==
                 IF n.type \in TypeDeclarations
                 THEN IF outside \/ depth >= minDepth
                      THEN <<[name |-> DeclaredName(n), docstring |-> _preceding_doc(siblings, i)]>>
                      ELSE <<>>
                 ELSE IF n.type = "namespace_declaration"
                 THEN DeclaredIn(BodyOf(n), 1, depth + 1, outside, minDepth)
                 ELSE <<>>
             fileScoped == n.type = "file_scoped_namespace_declaration"
         IN  here \o DeclaredIn(siblings, i + 1,
                                IF fileScoped /\ depth = 0 THEN 1 ELSE depth,
                                outside, minDepth)

\* every type declaration of the file
AllDeclared(root) == DeclaredIn(root.children, 1, 0, TRUE, 0)

\* those declared inside a block-scoped namespace or under a file-scoped one
NamespaceDeclared(root) == DeclaredIn(root.children, 1, 0, FALSE, 1)

\* those declared in a namespace nested in another namespace
NestedDeclared(root) == DeclaredIn(root.children, 1, 0, FALSE, 2)

\* C8: the imports list of a skeleton of the C# extractor contains no duplicates.
C8_ImportsDeduplicated ==
    cs.done => NoDuplicates(cs.skeleton[1].imports)

\* C9: every class, interface, struct or record declared inside a block-scoped namespace
\* or under a file-scoped namespace is in the classes list of the skeleton exactly as
\* often as it is declared, with the doc comment that precedes it among its siblings.
C9_NamespaceClassesFlattened ==
    cs.done =>
        \A d \in Range(NamespaceDeclared(cs.tree)) :
            Count(Declared(cs.skeleton[1]), d) = Count(AllDeclared(cs.tree), d)

\* C10: the classes declared in a namespace nested inside another namespace are in the
\* classes list of the skeleton.
C10_NestedNamespacesFlattened ==
    cs.done =>
        \A d \in Range(NestedDeclared(cs.tree)) :
            Count(Declared(cs.skeleton[1]), d) = Count(AllDeclared(cs.tree), d)

(***************************************************************************)
(* Properties of _extract_method.                                          *)
(***************************************************************************)
\* the text of the child in the field "name"
NamedChild(node) ==
    LET named == SelectSeq(node.children, LAMBDA n : n.field = "name")
    IN  IF named = <<>> THEN <<>> ELSE named[1].text

\* the accessors a property declares, by their keywords, in the order of the source
DeclaredAccessors(node) ==
    LET lists == SelectSeq(node.children, LAMBDA n : n.type = "accessor_list")
        decls == Flatten([i \in 1..Len(lists) |->
                     SelectSeq(lists[i].children, LAMBDA n : n.type = "accessor_declaration")])
    IN  [i \in 1..Len(decls) |->
            CHOOSE k \in AccessorKeywords : \E j \in 1..Len(decls[i].children) :
                decls[i].children[j].type = k]

\* "{ " + the accessors joined by single spaces + " }"; empty without an accessor list
AccessorTokens(node) ==
    IF \A i \in 1..Len(node.children) : node.children[i].type # "accessor_list" THEN <<>>
    ELSE <<"{", " ">>
         \o Join([i \in 1..Len(DeclaredAccessors(node)) |-> <<DeclaredAccessors(node)[i]>>], " ")
         \o <<" ", "}">>

\* C11: the FunctionSig of a property has the declared name of the property, and its
\* params is "{ " + the declared get/set/init accessors in source order, joined by single
\* spaces, + " }"; params is empty when the property has no accessor list.
C11_PropertyAccessors ==
    (app.op = "_extract_method" /\ app.done /\ app.node.type = "property_declaration") =>
        /\ app.sig.name = NamedChild(app.node)
        /\ app.sig.params = AccessorTokens(app.node)

(***************************************************************************)
(* Properties of _preceding_doc and _parse_doc_comment.                    *)
(***************************************************************************)
DocCommentNode(n) ==
    n.type = "comment"
    /\ (StartsWith(Strip(n.text), TripleSlash) \/ StartsWith(Strip(n.text), BlockOpen))

TransparentNode(n) == n.type \in {"preprocessor_directive", "nullable_directive"}

\* where the run of doc comments and transparent siblings directly above idx starts
RunStart(siblings, idx) ==
    CHOOSE j \in 1..idx :
        /\ \A k \in j..(idx - 1) : DocCommentNode(siblings[k]) \/ TransparentNode(siblings[k])
        /\ j > 1 => ~(DocCommentNode(siblings[j - 1]) \/ TransparentNode(siblings[j - 1]))

\* the doc comments of that run, in source order
DocRun(siblings, idx) ==
    SelectSeq(SubSeq(siblings, RunStart(siblings, idx), idx - 1), DocCommentNode)

DocDone == app.op = "_preceding_doc" /\ app.done

\* C12: the docstring of the declaration at idx is the doc comments of the nearest
\* contiguous run directly above it, each parsed, joined in source order by line breaks;
\* directives are skipped, the run ends at the first sibling that is neither a doc comment
\* nor a directive; without such a run the docstring is empty.
C12_DocAssociation ==
    DocDone =>
        LET run == DocRun(app.siblings, app.idx)
        IN  /\ app.docstring = Join([i \in 1..Len(run) |-> _parse_doc_comment(run[i].text)], "\n")
            /\ run = <<>> => app.docstring = <<>>

\* // note, /// Doc A., #nullable enable, then the method: the docstring is "Doc A."
C12_Witness ==
    /\ DocDone
    /\ app.siblings = <<PlainComment, DocA, NullableDirective, MethodAdd>>
    /\ app.docstring = <<"Doc", " ", "A", ".">>

\* the element names of C# XML documentation comments
XmlDocTags ==
    { "summary", "remarks", "returns", "param", "typeparam", "exception", "example", "value",
      "para", "see", "seealso", "c", "code", "list", "item", "inheritdoc" }

\* where the XML documentation tag that starts at i ends; 0 when none starts there
XmlTagEnd(s, i) ==
    LET j == IF i + 1 <= Len(s) /\ s[i + 1] = "/" THEN i + 2 ELSE i + 1
    IN  IF s[i] = "<" /\ j <= Len(s) /\ s[j] \in XmlDocTags /\ (\E m \in j..Len(s) : s[m] = ">")
        THEN CHOOSE m \in j..Len(s) : s[m] = ">" /\ \A n \in j..(m - 1) : s[n] # ">"
        ELSE 0

\* a text without its XML documentation tags
RECURSIVE WithoutXmlTags(_, _)
WithoutXmlTags(s, i) ==
    IF i > Len(s) THEN <<>>
    ELSE IF XmlTagEnd(s, i) > 0 THEN WithoutXmlTags(s, XmlTagEnd(s, i) + 1)
    ELSE <<s[i]>> \o WithoutXmlTags(s, i + 1)

\* the words of a text: neither white space nor punctuation nor comment markers
Words(s) == SelectSeq(s, IsAlnum)

ContainsSeq(s, sub) == \E i \in 1..(Len(s) - Len(sub) + 1) : SubSeq(s, i, i + Len(sub) - 1) = sub

\* C13: the docstring built from the doc comments above a declaration contains no XML
\* tag and no comment marker, and it keeps every word of the comments that is not part
\* of an XML tag, angle-bracketed prose such as the type argument of List<int> included.
C13_TagsStrippedTextKept ==
    DocDone =>
        LET run == DocRun(app.siblings, app.idx)
        IN  /\ \A marker \in {TripleSlash, BlockOpen, BlockClose} :
                   ~ContainsSeq(app.docstring, marker)
            /\ WithoutXmlTags(app.docstring, 1) = app.docstring
            /\ Words(app.docstring)
                   = Flatten([i \in 1..Len(run) |-> Words(WithoutXmlTags(run[i].text, 1))])

\* the words of each line of a text, the XML tags left out
LineWords(text) ==
    [i \in 1..Len(Lines(text)) |-> Words(WithoutXmlTags(Lines(text)[i], 1))]

\* the number of paragraphs: groups of lines with words, separated by lines without
ParagraphCount(lines) ==
    Cardinality({i \in 1..Len(lines) : lines[i] # <<>> /\ (i = 1 \/ lines[i - 1] = <<>>)})

\* C14: the stored docstring has the paragraphs of the doc comments it was built from,
\* for /// comments and for /** */ comments: a blank comment line between two lines of
\* text is still a paragraph break in the docstring.
C14_ParagraphBreaksKept ==
    DocDone =>
        LET run == DocRun(app.siblings, app.idx)
        IN  ParagraphCount(LineWords(app.docstring))
                = ParagraphCount(Flatten([i \in 1..Len(run) |-> LineWords(run[i].text)]))

(***************************************************************************)
(* Properties of the lists of a C# skeleton.                               *)
(***************************************************************************)
RECURSIVE IsSubsequence(_, _)
IsSubsequence(a, b) ==
    IF a = <<>> THEN TRUE
    ELSE IF b = <<>> THEN FALSE
    ELSE IF Head(a) = Head(b) THEN IsSubsequence(Tail(a), Tail(b))
    ELSE IsSubsequence(a, Tail(b))

\* the type declaration nodes of a sibling list and of the namespaces in it, in source order
RECURSIVE TypeNodes(_)
TypeNodes(siblings) ==
    Flatten([i \in 1..Len(siblings) |->
        IF siblings[i].type \in TypeDeclarations THEN <<siblings[i]>>
        ELSE IF siblings[i].type = "namespace_declaration" THEN TypeNodes(BodyOf(siblings[i]))
        ELSE <<>>])

\* the declared name of a member: its last identifier child (the type comes before it)
MemberName(node) ==
    LET ids == SelectSeq(node.children, LAMBDA n : n.type = "identifier")
    IN  IF ids = <<>> THEN <<>> ELSE ids[Len(ids)].text

\* the names of the methods, constructors and properties of a type, in source order
MemberNames(node) ==
    LET members == SelectSeq(BodyOf(node), LAMBDA n : n.type \in MemberTypes)
    IN  [i \in 1..Len(members) |-> MemberName(members[i])]

\* C15: the lists of a skeleton are in source order.  The classes list follows the order
\* of the type declarations of the file, those inside namespaces at their place; the
\* methods list of a class names its methods, constructors and properties in the order
\* of the class body.
C15_SourceOrder ==
    cs.done =>
        LET sk == cs.skeleton[1]
        IN  /\ IsSubsequence(Declared(sk), AllDeclared(cs.tree))
            /\ \A i \in 1..Len(sk.classes) :
                   \A node \in Range(TypeNodes(cs.tree.children)) :
                       DeclaredName(node) = sk.classes[i].name =>
                           [k \in 1..Len(sk.classes[i].methods) |-> sk.classes[i].methods[k].name]
                               = MemberNames(node)

\* namespace N { class E { Result, E(), x, Add } class B { Add } } class A { Add }:
\* the classes are E, B, A and the methods of E are Result, E, Add
C15_Witness ==
    /\ cs.done
    /\ cs.tree.children = <<Namespace("N", <<ClassE, ClassB>>), ClassA>>
    /\ [i \in 1..Len(cs.skeleton[1].classes) |-> cs.skeleton[1].classes[i].name]
           = << <<"E">>, <<"B">>, <<"A">> >>
    /\ [k \in 1..3 |-> cs.skeleton[1].classes[1].methods[k].name]
           = << <<"Result">>, <<"E">>, <<"Add">> >>

\* C16: a comment at the top of the file, before the first using directive, is the
\* module-level documentation: module_doc of the skeleton is not empty.
C16_ModuleDocCaptured ==
    (/\ cs.done
     /\ Len(cs.tree.children) >= 2
     /\ cs.tree.children[1].type = "comment"
     /\ cs.tree.children[2].type = "using_directive")
        => cs.skeleton[1].module_doc # <<>>

(***************************************************************************)
(* Properties of to_text.                                                  *)
(***************************************************************************)
TextDone == app.op = "to_text" /\ app.done

EmptySkeleton(sk) ==
    sk.module_doc = <<>> /\ sk.imports = <<>> /\ sk.classes = <<>> /\ sk.functions = <<>>

\* the docstrings of the classes, methods and functions of a skeleton
Docstrings(sk) ==
    {sk.classes[i].docstring : i \in 1..Len(sk.classes)}
    \cup UNION {{sk.classes[i].methods[k].docstring : k \in 1..Len(sk.classes[i].methods)} :
                   i \in 1..Len(sk.classes)}
    \cup {sk.functions[i].docstring : i \in 1..Len(sk.functions)}

\* how many classes, methods and functions have a docstring
DocumentedCount(sk) ==
    Cardinality({i \in 1..Len(sk.classes) : sk.classes[i].docstring # <<>>})
    + Cardinality(UNION {{<<i, k>> : k \in {j \in 1..Len(sk.classes[i].methods) :
                                                sk.classes[i].methods[j].docstring # <<>>}} :
                            i \in 1..Len(sk.classes)})
    + Cardinality({i \in 1..Len(sk.functions) : sk.functions[i].docstring # <<>>})

\* the lines of a docstring after its first line that have text
LaterLines(d) == {Lines(d)[i] : i \in {j \in 2..Len(Lines(d)) : ~BlankLine(Lines(d)[j])}}

\* the lines of a docstring that have text
TextLines(d) == {Lines(d)[i] : i \in {j \in 1..Len(Lines(d)) : ~BlankLine(Lines(d)[j])}}

Shown(text, line) == \E k \in 1..Len(text) : ContainsSeq(text[k], line)

\* C17: the first line of the rendered text is the header "# <file_name> [<language>]",
\* verbose or not; a skeleton without module doc, imports, classes and functions renders
\* as the header alone.
C17_HeaderFirst ==
    TextDone =>
        /\ Len(app.text) >= 1
        /\ app.text[1]
               = <<"# ">> \o app.skeleton.file_name \o <<" [", app.skeleton.language, "]">>
        /\ EmptySkeleton(app.skeleton) => Len(app.text) = 1

\* the empty skeleton of empty.py / foo.py rendered verbose: the header alone
C17_Witness ==
    /\ TextDone
    /\ app.verbose
    /\ EmptySkeleton(app.skeleton)
    /\ app.text = << <<"# ", "foo.py", " [", "Python", "]">> >>

\* C18: the compact rendering shows no line of a module, class, method or function
\* docstring after its first line; each non-empty class, method and function docstring
\* is shown as one line holding its first line between two triple-quote markers.
C18_CompactFirstLineOnly ==
    (TextDone /\ ~app.verbose) =>
        /\ \A d \in Docstrings(app.skeleton) \cup {app.skeleton.module_doc} :
               \A line \in LaterLines(d) : ~Shown(app.text, line)
        /\ \A d \in Docstrings(app.skeleton) :
               d # <<>> => Shown(app.text, <<Quotes>> \o Lines(d)[1] \o <<Quotes>>)
        /\ Cardinality({k \in 1..Len(app.text) : ContainsSeq(app.text[k], <<Quotes>>)})
               = DocumentedCount(app.skeleton)

\* the class Foo with MULTILINE_DOC rendered compact: """First line summary."""
C18_Witness ==
    /\ TextDone
    /\ ~app.verbose
    /\ Len(app.skeleton.classes) = 1
    /\ app.skeleton.classes[1].docstring = MultiLine
    /\ app.skeleton.module_doc = <<>>
    /\ Len(app.text) >= 3
    /\ app.text[2] = <<"class ", "Foo">>
    /\ app.text[3] = <<"  ", Quotes, "First line summary.", Quotes>>

\* C19: the verbose rendering shows every line of text of every class, method and
\* function docstring; of the module doc it shows the first line only, as the line
\* module: "<first line>".
C19_VerboseFullDocstring ==
    (TextDone /\ app.verbose) =>
        /\ \A d \in Docstrings(app.skeleton) : \A line \in TextLines(d) : Shown(app.text, line)
        /\ app.skeleton.module_doc # <<>> =>
               /\ Len(app.text) >= 2
               /\ app.text[2] = <<"module: \"">> \o Lines(app.skeleton.module_doc)[1] \o <<"\"">>
               /\ \A line \in LaterLines(app.skeleton.module_doc) : ~Shown(app.text, line)

\* a multi-line module doc and the function helper with MULTILINE_DOC rendered verbose
C19_Witness ==
    /\ TextDone
    /\ app.verbose
    /\ app.skeleton.module_doc # <<>>
    /\ app.text[2] = <<"module: \"", "Module for parsing things.", "\"">>
    /\ Len(app.skeleton.functions) = 1
    /\ app.skeleton.functions[1].docstring = MultiLine
    /\ Shown(app.text, <<"    x: an integer.", Quotes>>)
    /\ Shown(app.text, <<"Args:">>)

Indents == {" ", "\t", "  ", "    "}

\* the first and the last line with text of a docstring that has text
FirstTextLine(d) ==
    Lines(d)[CHOOSE i \in 1..Len(Lines(d)) :
                 ~BlankLine(Lines(d)[i]) /\ \A j \in 1..(i - 1) : BlankLine(Lines(d)[j])]
LastTextLine(d) ==
    Lines(d)[CHOOSE i \in 1..Len(Lines(d)) :
                 ~BlankLine(Lines(d)[i]) /\ \A j \in (i + 1)..Len(Lines(d)) : BlankLine(Lines(d)[j])]

\* C20: no line of a rendering is a triple-quote marker alone.  A docstring shown as one
\* line has both markers on that line; a docstring shown on several lines has the opening
\* marker on the line of its first line of text and the closing marker on the line of
\* its last line of text.
C20_NoDanglingMarker ==
    TextDone =>
        /\ \A k \in 1..Len(app.text) :
               SelectSeq(app.text[k], LAMBDA c : c \notin Indents) # <<Quotes>>
        /\ \A d \in Docstrings(app.skeleton) :
               Cardinality(TextLines(d)) >= 1 =>
                   IF ~app.verbose
                   THEN Shown(app.text, <<Quotes>> \o Lines(d)[1] \o <<Quotes>>)
                   ELSE IF Cardinality(TextLines(d)) = 1
                   THEN Shown(app.text, <<Quotes>> \o FirstTextLine(d) \o <<Quotes>>)
                   ELSE /\ Shown(app.text, <<Quotes>> \o FirstTextLine(d))
                        /\ Shown(app.text, LastTextLine(d) \o <<Quotes>>)
                        /\ ~Shown(app.text, <<Quotes>> \o FirstTextLine(d) \o <<Quotes>>)

\* the class Foo with "\nAdd two integers.\n\nFirst operand\n" rendered verbose
C20_Witness ==
    /\ TextDone
    /\ app.verbose
    /\ Len(app.skeleton.classes) = 1
    /\ app.skeleton.classes[1].docstring = SummaryAndParam
    /\ app.skeleton.module_doc = <<>>
    /\ Len(app.text) >= 5
    /\ app.text[2] = <<"class ", "Foo">>
    /\ app.text[3] = <<"  ", Quotes, "Add two integers.">>
    /\ app.text[5] = <<"  ", "First operand", Quotes>>

\* the methods and functions of a skeleton
Signatures(sk) ==
    UNION {Range(sk.classes[i].methods) : i \in 1..Len(sk.classes)} \cup Range(sk.functions)

\* C21: no rendered line holds a raw line break, in compact and in verbose mode: a method
\* or function whose params text has line breaks is rendered on one signature line, which
\* holds its name, "(", every piece of the params text and ")".
C21_SingleSignatureLine ==
    TextDone =>
        /\ \A k \in 1..Len(app.text) : "\n" \notin Range(app.text[k])
        /\ \A f \in Signatures(app.skeleton) :
               \E k \in 1..Len(app.text) :
                   /\ ContainsSeq(app.text[k], f.name \o <<"(">>)
                   /\ ")" \in Range(app.text[k])
                   /\ Range(f.params) \ {"\n"} \subseteq Range(app.text[k])

\* the function standalone with one parameter per line, rendered verbose on one line
C21_Witness ==
    /\ TextDone
    /\ app.verbose
    /\ Len(app.skeleton.functions) = 1
    /\ app.skeleton.functions[1].params = MultiLineParams
    /\ Shown(app.text, <<"def ", "standalone", "(", " ", "self,", " ", "source: str,", " ", ")",
                         " -> ", "str">>)

(***************************************************************************)
(* Properties of AsyncRecordWriter.                                        *)
(***************************************************************************)
\* the writer thread has ended, every call has returned and the process has not exited
WriterQuiet ==
    /\ writer.started
    /\ ~writer.exited
    /\ writer.thread = "ended"
    /\ writer.caller = "idle"
    /\ writer.stopper = "done"

\* C22: when the writer thread has ended, every record that write_record accepted before
\* stop() was called is in the file, those that were still in the queue included.
C22_StopFlushesQueue ==
    (writer.started /\ ~writer.exited /\ writer.thread = "ended") =>
        \A i \in 1..writer.stopAt : writer.accepted[i] \in Range(writer.file)

\* C30: no accepted record is lost, however write_record and stop() interleave: the file
\* never holds anything but the accepted records, once each, in the order of acceptance;
\* no record is in the queue behind the stop sentinel; and when the writer thread has
\* ended and all calls have returned without an exit of the process, the file holds all
\* accepted records.
C30_NoRecordLost ==
    writer.started =>
        /\ writer.file = SubSeq(writer.accepted, 1, Len(writer.file))
        /\ \A i, j \in 1..Len(writer._queue) :
               (i < j /\ writer._queue[i] = Sentinel) => writer._queue[j] = Sentinel
        /\ (WriterQuiet /\ Len(writer.accepted) = writer.toWrite) =>
               writer.file = writer.accepted

ConfigDone == app.op = "validate_server_config" /\ app.done

Racing == DOMAIN threads # {}

\* the calls that have returned
Returned == {t \in DOMAIN threads : threads[t].pc = "done"}

\* the extractors the calls constructed and stored for a language, None for a failure
StoredFor(lang) ==
    {threads[t].extractor : t \in {u \in DOMAIN threads :
        threads[u].lang = lang /\ threads[u].tried /\ threads[u].pc \in {"extract", "done"}}}

\* C24: concurrent first calls for one language on one dispatcher are harmless: every
\* call returns the rendered text of its content, or None when the language has no
\* extractor, the construction failed or the extraction raised; once the calls have
\* returned the cache holds for the language one of the extractors they stored, and a
\* later call constructs nothing and uses that entry
C24_RaceHarmless ==
    Racing =>
        /\ \A t \in Returned :
              LET c == threads[t]
              IN  /\ c.result.kind = "str" <=>
                        (c.lang \in _EXTRACTOR_REGISTRY /\ c.extractor \in 1..nobj /\ ~c.threw)
                  /\ c.result.kind = "str" =>
                        c.result.text = to_text(LanguageExtractor_extract(
                                                    c.lang, c.file_name, c.content), FALSE)
                  /\ (c.lang \in _EXTRACTOR_REGISTRY /\ c.extractor = NoObject) =>
                        ConstructionFailed(1, c.lang)
        /\ \A t \in Returned :
              (Quiet /\ threads[t].lang \in _EXTRACTOR_REGISTRY) =>
                  /\ threads[t].lang \in DOMAIN _cache[1]
                  /\ _cache[1][threads[t].lang] \in StoredFor(threads[t].lang)
        /\ \A t \in DOMAIN threads :
              (threads[t].late /\ threads[t].pc \in {"extract", "done"}) =>
                  /\ ~threads[t].tried
                  /\ threads[t].extractor = _cache[1][threads[t].lang]

\* two calls constructed an extractor each for the same language, and a later call
\* used the one the cache kept
C24_Witness ==
    /\ Racing
    /\ Quiet
    /\ \E t, u, v \in Returned :
          /\ threads[t].lang = "python" /\ threads[u].lang = "python"
          /\ threads[t].tried /\ threads[u].tried
          /\ threads[t].extractor # NoObject /\ threads[u].extractor # NoObject
          /\ threads[t].extractor # threads[u].extractor
          /\ threads[v].late /\ threads[v].lang = "python"
          /\ threads[v].result.kind = "str"

\* no wrapped operation is under way, and one has run
FSQuiet ==
    /\ fs.started
    /\ \A o \in DOMAIN fs.ops : fs.ops[o].pc \in {"idle", "done"}
    /\ \E o \in DOMAIN fs.ops : fs.ops[o].pc = "done"

\* C25: the record of each wrapped operation holds exactly the AGFS calls made during
\* that operation, also when operations overlap, and once the operations have finished
\* fs.agfs is the original client again
C25_CallsAttributed ==
    fs.started =>
        /\ \A o \in DOMAIN fs.ops :
              fs.ops[o].pc = "done" => fs.ops[o].agfs_calls = fs.ops[o].made
        /\ FSQuiet => fs.agfs = fs._original_agfs

InitializeCalls ==
    {u \in DOMAIN recorder.callers : recorder.callers[u].op = "initialize"}

GetInstanceDone ==
    {u \in DOMAIN recorder.callers :
        recorder.callers[u].op = "get_instance" /\ recorder.callers[u].pc = "done"}

\* C26: with no initialize call, concurrent get_instance calls construct one
\* IORecorder and all return it; a get_instance call made after the initialize call
\* has returned returns the instance initialize installed
C26_SingletonThreadSafe ==
    recorder.started =>
        /\ InitializeCalls = {} =>
              /\ recorder.constructed <= 1
              /\ \A t \in GetInstanceDone :
                    recorder.callers[t].ret = 1 /\ recorder.constructed = 1
        /\ \A i \in InitializeCalls :
              InitializeCalls = {i} =>
                  \A t \in GetInstanceDone :
                      recorder.callers[t].late =>
                          recorder.callers[t].ret = recorder.callers[i].installed

\* a get_instance call constructed the first instance, initialize installed the
\* second, and a get_instance call made after initialize returned got the second
C26_Witness ==
    /\ recorder.started
    /\ \E i \in InitializeCalls, t \in GetInstanceDone, g \in GetInstanceDone :
          /\ InitializeCalls = {i}
          /\ recorder.callers[g].installed = 1
          /\ recorder.callers[i].installed = 2
          /\ recorder.callers[t].late
          /\ recorder.callers[t].ret = 2

\* the step is an extract_skeleton call whose extract() or to_text() raised
FailedStep == ExtractStep /\ call'.threw # ""

\* C27: an extraction failure leaves the cache as _get_extractor left it: the entry of
\* the language is still the extractor the call used, an entry that existed is not
\* touched, and the next call for the language on that dispatcher whose extraction
\* does not raise returns the text, using the same extractor without constructing one
C27_FailureKeepsCache ==
    [][ /\ FailedStep =>
            /\ call'.extractor # NoObject
            /\ call'.lang \in DOMAIN _cache'[call'.self]
            /\ _cache'[call'.self][call'.lang] = call'.extractor
            /\ ~call'.tried => _cache' = _cache
            /\ \A d \in DOMAIN _cache : \A l \in DOMAIN _cache[d] :
                  _cache'[d][l] = _cache[d][l]
        /\ (/\ ExtractStep
            /\ call.op = "extract_skeleton" /\ call.threw # ""
            /\ call'.self = call.self /\ call'.lang = call.lang
            /\ call'.threw = "") =>
               /\ call'.result.kind = "str"
               /\ call'.extractor = call.extractor
               /\ ~call'.tried
      ]_vars

\* a call failed in extract() or to_text(), and the next call for the same language
\* on the same dispatcher returned the text
C27_Witness ==
    /\ ncalls = 2
    /\ call.op = "extract_skeleton"
    /\ call.result.kind = "str"
    /\ ~call.tried
    /\ \E i \in 1..Len(log) : log[i] = FailedWarning(call.self, call.file_name, call.lang)

\* the text of the parameter list of a method without its outer parentheses and the
\* white space around what is left
ParameterText(node) ==
    LET lists == SelectSeq(node.children, LAMBDA n : n.type = "parameter_list")
    IN  IF lists = <<>> THEN <<>>
        ELSE Strip(SubSeq(lists[1].text, 2, Len(lists[1].text) - 1))

\* C28: for a method declaration of any return type (predefined, void, generic, or a
\* user-defined type written as an identifier) the FunctionSig's name is the declared
\* name of the method, never its return type, and params is the text of the parameter
\* list without the outer parentheses
C28_MethodNameNotReturnType ==
    (app.op = "_extract_method" /\ app.done /\ app.node.type = "method_declaration") =>
        /\ app.sig.name = NamedChild(app.node)
        /\ app.sig.params = ParameterText(app.node)

\* the doc comments above the declaration are all /// comments
SlashRun ==
    LET run == DocRun(app.siblings, app.idx)
    IN  run # <<>> /\ \A i \in 1..Len(run) : StartsWith(Strip(run[i].text), TripleSlash)

\* C29: a docstring built from a /// block that contains any text has a non-empty first
\* line: a comment that is empty once its marker and its XML tags are removed, such as
\* '/// <summary>' on its own, gives no leading empty line
C29_FirstLineNotEmpty ==
    (DocDone /\ SlashRun /\ \E i \in 1..Len(app.docstring) : app.docstring[i] # "\n") =>
        app.docstring[1] # "\n"

====
